---- MODULE Spec2Model ----
(***************************************************************************)
(* Model of the WoW raid recorder core: the session state holder           *)
(* (state_manager.py), the OBS client (obs_client.py), and the combat      *)
(* parser with its handlers, idle monitor and background begin/finish      *)
(* threads (combat_parser.py).                                             *)
(*                                                                         *)
(* Text is a sequence of one-character strings, so that upper(), lower(),  *)
(* int() and the substring test are computed, not looked up.  Python's     *)
(* None is the empty tuple and a present value v is <<v>>.                 *)
(*                                                                         *)
(* Threads interleave at the blocking calls of the code: the grace delay   *)
(* time.sleep(3) of an end-transition, the start of a thread and the OBS   *)
(* websocket requests.  The code between two of them is one step.  The     *)
(* short sleep that ends an OBSClient call is followed only by the return  *)
(* of the call and the end of the thread function and is part of the step  *)
(* of the command.  The clock is in abstract units.                        *)
(***************************************************************************)
EXTENDS Integers, Sequences, FiniteSets, TLC

VARIABLES
    config,             \* ConfigManager values read by the core (fixed after start)
    files,              \* the recording directory: the files in it
    on_event,           \* CombatParser.on_event is set (the frontend registers
    on_recording_saved, \* both listeners when it builds the parser)
    state,              \* RecordingState
    record_active,      \* OBS: a recording is running (get_record_status().record_active)
    ingest,             \* the thread calling process_line: its position and locals
    monitor,            \* the _dungeon_monitor_loop thread: its position and locals
    _dungeon_monitor_running, \* CombatParser._dungeon_monitor_running
    main,               \* the main thread: its position in CombatParser.shutdown
    dungeon_monitor,    \* a DungeonMonitor, the threads it started and its caller
    threads,            \* CombatParser._active_threads: the begin/finish threads
    now,                \* time.time()
    emitted             \* what the last step passed to on_event (NoEvent if nothing)

vars == <<config, files, on_event, on_recording_saved, state, record_active, ingest,
          monitor, _dungeon_monitor_running, main, dungeon_monitor, threads, now,
          emitted>>

---------------------------------------------------------------------------
(* Bounds of the model *)

\* a line is read only while fewer than MaxThreads background threads have
\* been launched (a handler in its grace delay and the monitor still launch
\* their finish threads)
MaxThreads == 2
\* last value of the clock
MaxTime == 2
\* greatest size a file is written to
MaxSize == 2
\* greatest length of a raw name the file name is made of
MaxNameLen == 3

---------------------------------------------------------------------------
(* Python values *)

None == <<>>
Some(v) == <<v>>
Val(o) == o[1]

\* truth value of an Optional[int] / Optional[float] (None and 0 are false)
TruthyNum(o) == o # None /\ Val(o) # 0
\* truth value of an Optional[str] (None and "" are false)
TruthyStr(o) == o # None /\ Val(o) # <<>>

LowerLetters == <<"a","b","c","d","e","f","g","h","i","j","k","l","m",
                  "n","o","p","q","r","s","t","u","v","w","x","y","z">>
UpperLetters == <<"A","B","C","D","E","F","G","H","I","J","K","L","M",
                  "N","O","P","Q","R","S","T","U","V","W","X","Y","Z">>

UpperChar(c) ==
    IF \E i \in 1..26 : LowerLetters[i] = c
    THEN UpperLetters[CHOOSE i \in 1..26 : LowerLetters[i] = c]
    ELSE c
LowerChar(c) ==
    IF \E i \in 1..26 : UpperLetters[i] = c
    THEN LowerLetters[CHOOSE i \in 1..26 : UpperLetters[i] = c]
    ELSE c
\* str.upper(), str.lower()
Upper(s) == [i \in 1..Len(s) |-> UpperChar(s[i])]
Lower(s) == [i \in 1..Len(s) |-> LowerChar(s[i])]

\* a in b, for strings
IsSubstring(a, b) ==
    \E i \in 0..(Len(b) - Len(a)) : SubSeq(b, i + 1, i + Len(a)) = a

Digits == <<"0","1","2","3","4","5","6","7","8","9">>
IsDigit(c) == \E i \in 1..10 : Digits[i] = c
DigitVal(c) == (CHOOSE i \in 1..10 : Digits[i] = c) - 1

RECURSIVE DigitsVal(_)
DigitsVal(s) ==
    IF s = <<>> THEN 0
    ELSE 10 * DigitsVal(SubSeq(s, 1, Len(s) - 1)) + DigitVal(s[Len(s)])

\* int(s) with 0 for a text that is no number
ParseInt_or_zero(s) ==
    LET body == IF s # <<>> /\ s[1] \in {"-", "+"} THEN Tail(s) ELSE s
    IN  IF body # <<>> /\ \A i \in 1..Len(body) : IsDigit(body[i])
        THEN Some(IF s[1] = "-" THEN 0 - DigitsVal(body) ELSE DigitsVal(body))
        ELSE Some(0)

\* int(s) on a stripped field: an optional sign and one or more digits give
\* Some(value), anything else raises ValueError (None here)
ParseInt(s) ==
    LET body == IF s # <<>> /\ s[1] \in {"-", "+"} THEN Tail(s) ELSE s
    IN  IF body # <<>> /\ \A i \in 1..Len(body) : IsDigit(body[i])
        THEN Some(IF s[1] = "-" THEN 0 - DigitsVal(body) ELSE DigitsVal(body))
        ELSE None

---------------------------------------------------------------------------
(* Event names *)

ENCOUNTER_START == <<"E","N","C","O","U","N","T","E","R","_","S","T","A","R","T">>
ENCOUNTER_END == <<"E","N","C","O","U","N","T","E","R","_","E","N","D">>
CHALLENGE_MODE_START ==
    <<"C","H","A","L","L","E","N","G","E","_","M","O","D","E","_","S","T","A","R","T">>
CHALLENGE_MODE_END ==
    <<"C","H","A","L","L","E","N","G","E","_","M","O","D","E","_","E","N","D">>
ZONE_CHANGE == <<"Z","O","N","E","_","C","H","A","N","G","E">>

---------------------------------------------------------------------------
(* ConfigManager *)

DIFFICULTY_IDS ==
    [lfr |-> {7, 17}, normal |-> {1, 14}, heroic |-> {2, 15},
     mythic |-> {3, 16, 23}, other |-> {4, 5, 8, 9, 24, 33}]

get_enabled_difficulties(cfg) ==
    (IF cfg.RECORD_LFR THEN DIFFICULTY_IDS.lfr ELSE {})
    \cup (IF cfg.RECORD_NORMAL THEN DIFFICULTY_IDS.normal ELSE {})
    \cup (IF cfg.RECORD_HEROIC THEN DIFFICULTY_IDS.heroic ELSE {})
    \cup (IF cfg.RECORD_MYTHIC THEN DIFFICULTY_IDS.mythic ELSE {})
    \cup (IF cfg.RECORD_OTHER THEN DIFFICULTY_IDS.other ELSE {})

is_difficulty_enabled(cfg, difficulty_id) ==
    difficulty_id \in get_enabled_difficulties(cfg)

\* the idle threshold of the monitor, in clock units
DUNGEON_TIMEOUT_SECONDS == 0

\* DEFAULT_CONFIG's difficulty switches
DefaultDifficulties ==
    [RECORD_LFR |-> FALSE, RECORD_NORMAL |-> TRUE, RECORD_HEROIC |-> TRUE,
     RECORD_MYTHIC |-> TRUE, RECORD_OTHER |-> FALSE]

\* recording_extension of DEFAULT_CONFIG
DefaultExtension == <<".", "m", "p", "4">>

\* a configuration: the default difficulty switches, the Mythic+ switch, the
\* minimum recording duration (in clock units), delete_short_recordings and
\* max_rename_attempts; BOSS_NAME_OVERRIDES is a set of <<boss_id, name>> pairs
Config(mplus, min_duration, delete_short, max_attempts) ==
    [RECORD_LFR |-> DefaultDifficulties.RECORD_LFR,
     RECORD_NORMAL |-> DefaultDifficulties.RECORD_NORMAL,
     RECORD_HEROIC |-> DefaultDifficulties.RECORD_HEROIC,
     RECORD_MYTHIC |-> DefaultDifficulties.RECORD_MYTHIC,
     RECORD_OTHER |-> DefaultDifficulties.RECORD_OTHER,
     RECORD_MPLUS |-> mplus,
     MIN_RECORDING_DURATION |-> min_duration,
     DELETE_SHORT_RECORDINGS |-> delete_short,
     MAX_RENAME_ATTEMPTS |-> max_attempts,
     RECORDING_EXTENSION |-> DefaultExtension,
     BOSS_NAME_OVERRIDES |-> {}]

\* the configurations the parser is run with: the Mythic+ switch on or off, a
\* minimum duration of one clock unit, short recordings deleted
Configs == { Config(m, 1, TRUE, 2) : m \in BOOLEAN }

---------------------------------------------------------------------------
(* The recording directory *)

\* a file: its name, its size (st_size) and its modification time (st_mtime)
File(name, size, mtime) == [name |-> name, size |-> size, mtime |-> mtime]

\* the name OBS gives the file it records to
ObsOutput == <<"o", "b", "s", ".", "m", "p", "4">>

\* the directory OBS records to, holding the file of the last recording
RecordingDirectory == { File(ObsOutput, 1, 1) }

---------------------------------------------------------------------------
(* RecordingState (state_manager.py) *)

\* _reset_all forgetting the boss name
_reset_all_keeps_name(st) ==
    [st EXCEPT !.recording = FALSE,
               !.recording_start_time = None,
               !.encounter_active = FALSE,
               !.boss_id = None,
               !.difficulty_id = None,
               !.instance_id = None,
               !.encounter_start_time = None]

\* the fields _reset_all assigns
_reset_all(st) ==
    [st EXCEPT !.recording = FALSE,
               !.recording_start_time = None,
               !.encounter_active = FALSE,
               !.boss_id = None,
               !.boss_name = None,
               !.difficulty_id = None,
               !.instance_id = None,
               !.encounter_start_time = None]

\* _reset_all up to and including "self.encounter_active = False": the
\* assignments are separate statements under no lock, and the interpreter
\* can switch to another thread between any two of them
_reset_all_upto_encounter_active(st) ==
    [st EXCEPT !.recording = FALSE,
               !.recording_start_time = None,
               !.encounter_active = FALSE]

\* the dungeon part of the state holder: cleared together with the rest
reset_dungeon(st) ==
    [st EXCEPT !.dungeon_active = FALSE,
               !.dungeon_id = None,
               !.dungeon_name = None,
               !.dungeon_level = None,
               !.last_activity_time = None]

reset(st) == reset_dungeon(_reset_all(st))

\* RecordingState(): every field at its default
InitialState ==
    reset([recording |-> FALSE, recording_start_time |-> None,
           encounter_active |-> FALSE, boss_id |-> None, boss_name |-> None,
           difficulty_id |-> None, instance_id |-> None,
           encounter_start_time |-> None,
           dungeon_active |-> FALSE, dungeon_id |-> None, dungeon_name |-> None,
           dungeon_level |-> None, last_activity_time |-> None])

start_encounter(st, boss_id, boss_name, difficulty_id, instance_id, t) ==
    [st EXCEPT !.encounter_active = TRUE,
               !.boss_id = Some(boss_id),
               !.boss_name = Some(boss_name),
               !.difficulty_id = Some(difficulty_id),
               !.instance_id = Some(instance_id),
               !.encounter_start_time = Some(t)]

\* stores the dungeon, startedAt = now, lastActivityAt = now
start_dungeon(st, dungeon_id, name, level, t) ==
    [st EXCEPT !.dungeon_active = TRUE,
               !.dungeon_id = Some(dungeon_id),
               !.dungeon_name = Some(name),
               !.dungeon_level = Some(level),
               !.encounter_start_time = Some(t),
               !.last_activity_time = Some(t)]

start_recording(st, t) ==
    [st EXCEPT !.recording = TRUE, !.recording_start_time = Some(t)]

update_activity(st, t) == [st EXCEPT !.last_activity_time = Some(t)]

is_dungeon_idle(st, timeout, t) ==
    st.last_activity_time # None /\ t - Val(st.last_activity_time) > timeout

is_recording(st) == st.recording /\ st.encounter_active

get_encounter_duration(st, t) ==
    IF ~TruthyNum(st.encounter_start_time) THEN 0
    ELSE t - Val(st.encounter_start_time)

---------------------------------------------------------------------------
(* CombatEvent, BossInfo, DungeonInfo (combat_parser.py) *)

\* IntToStr(n): str(n) for n >= 0
RECURSIVE IntToStr(_)
IntToStr(n) ==
    IF n < 10 THEN <<Digits[n + 1]>>
    ELSE IntToStr(n \div 10) \o <<Digits[(n % 10) + 1]>>

\* str.strip() of blanks
RECURSIVE Strip(_)
Strip(s) ==
    IF s # <<>> /\ s[1] = " " THEN Strip(Tail(s))
    ELSE IF s # <<>> /\ s[Len(s)] = " " THEN Strip(SubSeq(s, 1, Len(s) - 1))
    ELSE s

\* the fields of one record of unquoted text: split at the commas of s, each
\* field stripped; cur is the part of the first field read before s
SplitFields(s, cur) ==
    CHOOSE fields \in
        { LET comma(n) == CHOOSE i \in commas : Cardinality({j \in commas : j < i}) = n - 1
              first(k) == IF k = 1 THEN 1 ELSE comma(k - 1) + 1
              last(k) == IF k = Cardinality(commas) + 1 THEN Len(text) ELSE comma(k) - 1
          IN  [k \in 1..(Cardinality(commas) + 1) |->
                  Strip(SubSeq(text, first(k), last(k)))] :
            text \in {cur \o s},
            commas \in {{i \in (Len(cur) + 1)..Len(cur \o s) : (cur \o s)[i] = ","}} } : TRUE

\* a parsed line: the event type is fields[0] uppercased
CombatEvent(timestamp, fields) ==
    [timestamp |-> timestamp,
     event_type |-> IF fields # <<>> THEN Upper(fields[1]) ELSE <<>>,
     fields |-> fields]

\* fields[k] with Python's 0-based index
Field(event, k) == event.fields[k + 1]

\* is_valid accepting every event
is_valid_always(event) == TRUE

is_valid(event) == event.event_type # <<>> /\ Len(event.fields) > 0
is_encounter_start(event) == event.event_type = ENCOUNTER_START
is_encounter_end(event) == event.event_type = ENCOUNTER_END
is_dungeon_start(event) == event.event_type = CHALLENGE_MODE_START
is_dungeon_end(event) == event.event_type = CHALLENGE_MODE_END
is_zone_change(event) == event.event_type = ZONE_CHANGE

BossInfo(boss_id, name, difficulty_id, instance_id, timestamp) ==
    [boss_id |-> boss_id, name |-> name, difficulty_id |-> difficulty_id,
     instance_id |-> instance_id, timestamp |-> timestamp]

DungeonInfo(dungeon_id, name, dungeon_level, timestamp) ==
    [dungeon_id |-> dungeon_id, name |-> name, dungeon_level |-> dungeon_level,
     timestamp |-> timestamp]

\* get_boss_info reading the instance from fields[4]
get_boss_info_instance_from_4(event) ==
    IF ~is_encounter_start(event) \/ Len(event.fields) < 6 THEN None
    ELSE LET boss_id == ParseInt(Field(event, 1))
             difficulty_id == ParseInt(Field(event, 3))
             instance_id == ParseInt(Field(event, 4))
         IN  IF boss_id = None \/ difficulty_id = None \/ instance_id = None
             THEN None
             ELSE Some(BossInfo(Val(boss_id), Field(event, 2), Val(difficulty_id),
                                Val(instance_id), event.timestamp))

\* Some(BossInfo) or None
get_boss_info(event) ==
    IF ~is_encounter_start(event) \/ Len(event.fields) < 6 THEN None
    ELSE LET boss_id == ParseInt(Field(event, 1))
             difficulty_id == ParseInt(Field(event, 3))
             instance_id == ParseInt(Field(event, 5))
         IN  IF boss_id = None \/ difficulty_id = None \/ instance_id = None
             THEN None
             ELSE Some(BossInfo(Val(boss_id), Field(event, 2), Val(difficulty_id),
                                Val(instance_id), event.timestamp))

\* Some(DungeonInfo) or None
get_dungeon_info(event) ==
    IF ~is_dungeon_start(event) THEN None
    ELSE IF Len(event.fields) < 5 THEN None
    ELSE LET instance_id == ParseInt(Field(event, 2))
             keystone_level == ParseInt(Field(event, 4))
         IN  IF instance_id = None \/ keystone_level = None THEN None
             ELSE Some(DungeonInfo(Val(instance_id), Field(event, 1),
                                   Val(keystone_level), event.timestamp))

---------------------------------------------------------------------------
(* CombatEvent._parse_line (combat_parser.py) *)

Quote == "\""
\* the NUL character, which csv.reader of Python before 3.11 refuses ("line
\* contains NUL") and later versions read as a character
NUL == "NUL"

\* str.find(sub, start): the place of the first occurrence of sub at or after
\* start (counted from 1), 0 when there is none
Find(s, sub, start) ==
    LET at == {i \in start..(Len(s) - Len(sub) + 1) :
                  SubSeq(s, i, i + Len(sub) - 1) = sub}
    IN  IF at = {} THEN 0 ELSE CHOOSE i \in at : \A j \in at : i <= j

\* the row csv.reader(quotechar='"', delimiter=',') reads from s, a text of
\* one line: mode is the state of the reader, cur the field being read, row
\* the fields read.  A quote opens a quoted field only at the start of a
\* field; in a quoted field a doubled quote is a quote and a single one ends
\* the quoting; at the end of the text the field being read is kept.
RECURSIVE csv_reader(_, _, _, _)
csv_reader(s, mode, cur, row) ==
    IF s = <<>> THEN Append(row, cur)
    ELSE LET c == Head(s)
             rest == Tail(s)
         IN  IF mode = "start_field"
             THEN IF c = Quote THEN csv_reader(rest, "in_quoted_field", cur, row)
                  ELSE IF c = "," THEN csv_reader(rest, "start_field", <<>>, Append(row, cur))
                  ELSE csv_reader(rest, "in_field", Append(cur, c), row)
             ELSE IF mode = "in_field"
             THEN IF c = "," THEN csv_reader(rest, "start_field", <<>>, Append(row, cur))
                  ELSE csv_reader(rest, "in_field", Append(cur, c), row)
             ELSE IF mode = "in_quoted_field"
             THEN IF c = Quote THEN csv_reader(rest, "quote_in_quoted_field", cur, row)
                  ELSE csv_reader(rest, "in_quoted_field", Append(cur, c), row)
             ELSE IF c = Quote THEN csv_reader(rest, "in_quoted_field", Append(cur, c), row)
                  ELSE IF c = "," THEN csv_reader(rest, "start_field", <<>>, Append(row, cur))
                  ELSE csv_reader(rest, "in_field", Append(cur, c), row)

\* a field of the row, stripped and without one layer of surrounding quotes
CleanField(field) ==
    LET stripped == Strip(field)
    IN  IF stripped # <<>> /\ stripped[1] = Quote /\ stripped[Len(stripped)] = Quote
        THEN SubSeq(stripped, 2, Len(stripped) - 1)
        ELSE stripped

\* CombatEvent(raw_line): the event _parse_line leaves.  nul_raises tells
\* whether csv.reader raises on a NUL character; the exception is caught with
\* the time stamp set and the fields still empty.
_parse_line(raw_line, nul_raises) ==
    LET line == Strip(raw_line)
        double_space == Find(line, <<" ", " ">>, 1)
        first_space == Find(line, <<" ">>, 1)
        second_space == Find(line, <<" ">>, first_space + 1)
        ts_end == IF double_space # 0 THEN double_space ELSE second_space
        timestamp == Strip(SubSeq(line, 1, ts_end - 1))
        data == Strip(SubSeq(line, IF double_space # 0 THEN ts_end + 2 ELSE ts_end + 1,
                             Len(line)))
        row == csv_reader(data, "start_field", <<>>, <<>>)
    IN  IF line = <<>> THEN CombatEvent(<<>>, <<>>)
        ELSE IF double_space = 0 /\ (first_space = 0 \/ second_space = 0)
             THEN CombatEvent(<<>>, <<>>)
        ELSE IF data = <<>> \/ (nul_raises /\ \E i \in 1..Len(data) : data[i] = NUL)
             THEN CombatEvent(timestamp, <<>>)
        ELSE CombatEvent(timestamp, [k \in 1..Len(row) |-> CleanField(row[k])])

---------------------------------------------------------------------------
(* RecordingFileManager: file names (combat_parser.py) *)

VIDEO_EXTENSIONS ==
    { <<".", "m", "p", "4">>, <<".", "m", "k", "v">>, <<".", "f", "l", "v">>, <<".", "m", "o", "v">>,
      <<".", "t", "s">>, <<".", "m", "3", "u", "8">>, <<".", "a", "v", "i">>, <<".", "w", "m", "v">> }

\* Path.suffix: the name from its last dot on, empty without a dot past the
\* first character
Suffix(name) ==
    LET dots == {i \in 2..Len(name) : name[i] = "."}
    IN  IF dots = {} THEN <<>>
        ELSE SubSeq(name, CHOOSE i \in dots : \A j \in dots : j <= i, Len(name))

is_video(file) == Lower(Suffix(file.name)) \in VIDEO_EXTENSIONS

\* the files find_latest_recording may return: the video files of the
\* directory with the greatest modification time (max() takes the first of
\* them in the order of iterdir(), which is arbitrary); none: it returns None
LatestRecordings(dir) ==
    {f \in dir : is_video(f) /\ \A g \in dir : is_video(g) => g.mtime <= f.mtime}

_get_difficulty_name(difficulty_id) ==
    IF difficulty_id \in {1, 14} THEN <<"N", "o", "r", "m", "a", "l">>
    ELSE IF difficulty_id \in {2, 15} THEN <<"H", "e", "r", "o", "i", "c">>
    ELSE IF difficulty_id \in {3, 16, 23} THEN <<"M", "y", "t", "h", "i", "c">>
    ELSE IF difficulty_id = 4 THEN <<"M", "y", "t", "h", "i", "c", "+">>
    ELSE IF difficulty_id \in {5, 24, 33} THEN <<"T", "i", "m", "e", "w", "a", "l", "k", "i", "n", "g">>
    ELSE IF difficulty_id \in {7, 17} THEN <<"L", "F", "R">>
    ELSE IF difficulty_id = 9 THEN <<"4", "0", "P", "l", "a", "y", "e", "r">>
    ELSE <<"D", "i", "f", "f", "i", "c", "u", "l", "t", "y", "_">> \o IntToStr(difficulty_id)

\* s without the characters of drop, and with the characters of under
\* replaced by "_"
RECURSIVE Clean(_, _, _)
Clean(s, drop, under) ==
    IF s = <<>> THEN <<>>
    ELSE IF s[1] \in drop THEN Clean(Tail(s), drop, under)
    ELSE IF s[1] \in under THEN <<"_">> \o Clean(Tail(s), drop, under)
    ELSE <<s[1]>> \o Clean(Tail(s), drop, under)

\* the characters the regular expression of formatted_name removes
SpecialCharacters == {"<", ">", ":", "\"", "/", "\\", "|", "?", "*"}

\* BossInfo.formatted_name without the removal of apostrophes
boss_formatted_name_keeping_apostrophes(name) ==
    Strip(Clean(name, SpecialCharacters \cup {","}, {" "}))

\* BossInfo.formatted_name
boss_formatted_name(name) ==
    Strip(Clean(name, SpecialCharacters \cup {"'", ","}, {" "}))

\* DungeonInfo.formatted_name
dungeon_formatted_name(name) ==
    Strip(Clean(name, SpecialCharacters \cup {"'", ","}, {" ", "-"}))

\* two decimal digits
Pad2(n) == IF n < 10 THEN <<"0">> \o IntToStr(n) ELSE IntToStr(n)

\* file_time.strftime("%Y-%m-%d"), file_time.strftime("%H-%M-%S") for a
\* modification time of mtime seconds into the first day of the epoch
date_str(mtime) == <<"1", "9", "7", "0", "-", "0", "1", "-", "0", "1">>
time_str(mtime) ==
    Pad2(mtime \div 3600) \o <<"-">> \o Pad2((mtime \div 60) % 60)
        \o <<"-">> \o Pad2(mtime % 60)

IsBossInfo(info) == "boss_id" \in DOMAIN info

\* generate_filename(boss_info=info) or generate_filename(dungeon_info=info),
\* with file_time given
generate_filename(info, file_time, cfg) ==
    date_str(file_time) \o <<"_">> \o time_str(file_time) \o <<"_">>
    \o (IF IsBossInfo(info)
        THEN boss_formatted_name(info.name) \o <<"_">>
             \o _get_difficulty_name(info.difficulty_id)
        ELSE dungeon_formatted_name(info.name) \o <<"_", "M", "+">>
             \o IntToStr(info.dungeon_level))
    \o cfg.RECORDING_EXTENSION

\* path.exists() in the directory
Exists(dir, name) == \E f \in dir : f.name = name

\* the loop of _handle_duplicate_filename and
\* _handle_duplicate_dungeon_filename, entered with path and counter
RECURSIVE duplicate_loop(_, _, _, _, _, _)
duplicate_loop(path, counter, info, file_time, cfg, dir) ==
    IF Exists(dir, path) /\ counter <= cfg.MAX_RENAME_ATTEMPTS
    THEN duplicate_loop(
             generate_filename(
                 [info EXCEPT !.name = @ \o <<"_", "a", "t", "t", "e", "m", "p", "t">> \o IntToStr(counter)],
                 file_time, cfg),
             counter + 1, info, file_time, cfg, dir)
    ELSE path

\* the duplicate handling with its counter starting at 2
_handle_duplicate_filename_from_2(path, info, file_time, cfg, dir) ==
    LET last == duplicate_loop(path, 2, info, file_time, cfg, dir)
    IN  IF Exists(dir, last) THEN path ELSE last

\* _handle_duplicate_filename / _handle_duplicate_dungeon_filename
_handle_duplicate_filename(path, info, file_time, cfg, dir) ==
    LET last == duplicate_loop(path, 1, info, file_time, cfg, dir)
    IN  IF Exists(dir, last) THEN path ELSE last

---------------------------------------------------------------------------
(* The log lines of the model *)

TS == <<"1","0",":","1","5">>
Unknown == <<"U","n","k","n","o","w","n">>
UnknownDungeon == <<"U","n","k","n","o","w","n"," ","D","u","n","g","e","o","n">>

\* a line as the game writes it: a time stamp, the blanks after it, and the
\* fields, those of quoted written in double quotes
Written(timestamp, separator, fields, quoted) ==
    [timestamp |-> timestamp, separator |-> separator, fields |-> fields,
     quoted |-> quoted]

RECURSIVE JoinFields(_, _, _)
JoinFields(fields, quoted, k) ==
    IF k > Len(fields) THEN <<>>
    ELSE (IF k > 1 THEN <<",">> ELSE <<>>)
         \o (IF k \in quoted THEN <<Quote>> \o fields[k] \o <<Quote>> ELSE fields[k])
         \o JoinFields(fields, quoted, k + 1)

\* the text of a written line
Text(w) == w.timestamp \o w.separator \o JoinFields(w.fields, w.quoted, 1)

DoubleSpace == <<" ", " ">>

WrittenLines ==
    { \* heroic (15): enabled by the default configuration
      Written(TS, DoubleSpace,
              <<ENCOUNTER_START, <<"2","6">>, <<"R","a">>, <<"1","5">>, <<"2","0">>,
                <<"9">>>>, {3}),
      \* the same, the event name in small letters
      Written(TS, DoubleSpace,
              <<Lower(ENCOUNTER_START), <<"2","6">>, <<"R","a">>, <<"1","5">>,
                <<"2","0">>, <<"9">>>>, {3}),
      \* LFR (17): not enabled by the default configuration
      Written(TS, DoubleSpace,
              <<ENCOUNTER_START, <<"2","7">>, <<"Z","s">>, <<"1","7">>, <<"2","5">>,
                <<"9">>>>, {}),
      \* a boss id that is no number
      Written(TS, DoubleSpace,
              <<ENCOUNTER_START, <<"x">>, <<"R","a">>, <<"1","5">>, <<"2","0">>,
                <<"9">>>>, {}),
      Written(TS, DoubleSpace,
              <<ENCOUNTER_END, <<"2","6">>, <<"R","a">>, <<"1","5">>, <<"2","0">>,
                <<"1">>>>, {3}),
      Written(TS, DoubleSpace,
              <<CHALLENGE_MODE_START, <<"T","a">>, <<"4","1">>, <<"3","9">>,
                <<"1","4">>>>, {2}),
      Written(TS, DoubleSpace,
              <<CHALLENGE_MODE_END, <<"4","1">>, <<"1">>, <<"1","4">>, <<"1">>>>, {}),
      \* a zone that is not the dungeon, and one that is
      Written(TS, DoubleSpace, <<ZONE_CHANGE, <<"8","4">>, <<"S","w">>>>, {3}),
      Written(TS, DoubleSpace, <<ZONE_CHANGE, <<"4","1">>, <<"t","a","z">>>>, {}),
      \* a zone change without a zone name
      Written(TS, DoubleSpace, <<ZONE_CHANGE, <<"8","4">>>>, {}),
      \* an unrelated event, a date and a time before it with single blanks
      Written(<<"5", " ">> \o TS, <<" ">>, << <<"S","P","E","L","L">>, <<"1">> >>, {}) }

\* lines that are no time stamp and fields: an empty line, a line of blanks,
\* a line without a blank, a line with one blank, and an event with a NUL
\* character
BrokenLines ==
    { <<>>,
      DoubleSpace,
      TS,
      TS \o <<" ">> \o ENCOUNTER_START \o <<",", "2", "6">>,
      TS \o DoubleSpace \o ENCOUNTER_START \o <<",", NUL>> }

RawLines == {Text(w) : w \in WrittenLines} \cup BrokenLines

\* the events process_line makes of the lines
LogLines == {_parse_line(raw_line, nul_raises) : raw_line \in RawLines, nul_raises \in BOOLEAN}

\* start lines the extraction fails on: too few fields, and a difficulty, an
\* instance, a dungeon id and a level that are no numbers
MalformedStarts ==
    { Written(TS, DoubleSpace, <<ENCOUNTER_START, <<"2","6">>, <<"R","a">>>>, {3}),
      Written(TS, DoubleSpace,
              <<ENCOUNTER_START, <<"2","6">>, <<"R","a">>, <<"h">>, <<"2","0">>,
                <<"9">>>>, {3}),
      Written(TS, DoubleSpace,
              <<ENCOUNTER_START, <<"2","6">>, <<"R","a">>, <<"1","5">>, <<"2","0">>,
                <<>>>>, {3}),
      Written(TS, DoubleSpace, <<CHALLENGE_MODE_START, <<"T","a">>, <<"4","1">>>>, {2}),
      Written(TS, DoubleSpace,
              <<CHALLENGE_MODE_START, <<"T","a">>, <<"x">>, <<"3","9">>, <<"1","4">>>>,
              {2}),
      Written(TS, DoubleSpace,
              <<CHALLENGE_MODE_START, <<"T","a">>, <<"4","1">>, <<"3","9">>,
                <<"1","4",".","5">>>>, {2}) }

\* the start line of a boss without a name: "ENCOUNTER_START,28,,15,20,9"
NamelessBoss ==
    _parse_line(Text(Written(TS, DoubleSpace,
                             <<ENCOUNTER_START, <<"2","8">>, <<>>, <<"1","5">>,
                               <<"2","0">>, <<"9">>>>, {})), TRUE)

\* the events of lines a log seldom has
UncommonLines ==
    {NamelessBoss} \cup {_parse_line(Text(w), TRUE) : w \in MalformedStarts}

---------------------------------------------------------------------------
(* Positions of the threads *)

NoEvent == [type |-> "NONE"]

\* the ingestion thread between two lines
Ready == [pc |-> "ready"]
\* an exception left process_line
Raised == [pc |-> "raised"]
\* the ingestion thread inside state.reset(), switched out
Resetting == [pc |-> "reset"]
\* the monitor in its time.sleep(5)
Sleeping == [pc |-> "sleep"]
\* the monitor past the test of its while, the body of the round not begun
Tested == [pc |-> "tested"]
\* the monitor after its loop ended
Stopped == [pc |-> "stopped"]
\* DungeonMonitor.__init__: the object, with the threads it has started (their
\* positions), the position of the thread that calls start and stop, and the
\* loop that called on_timeout in the last step (0: none)
DungeonMonitor(on_timeout) ==
    [_running |-> FALSE, _monitor_threads |-> <<>>, on_timeout |-> on_timeout,
     caller |-> "ready", called |-> 0]
\* the main thread in its event loop, shutdown not called
Running == [pc |-> "running"]
\* the main thread in shutdown, in the join of the monitor thread
JoiningMonitor == [pc |-> "join_monitor"]
\* the main thread in shutdown, at the i-th thread of _active_threads
JoiningThreads(i) == [pc |-> "join_threads", i |-> i]
\* shutdown returned
ShutdownComplete == [pc |-> "complete"]
\* the monitor ended by the exception of a check
Caught_terminated == [pc |-> "raised"]
\* the monitor in the time.sleep(5) of its except branch: a check raised, the
\* loop caught the exception
Caught == [pc |-> "caught"]

\* a handler in the time.sleep(3) of an end-transition, holding its locals
InGrace(target, info, duration, reason) ==
    [pc |-> "grace", target |-> target, info |-> info, duration |-> duration,
     reason |-> reason]

\* threading.Thread(target=..., args=...): a thread not yet scheduled
Thread(target, info, duration, reason) ==
    [target |-> target, info |-> info, duration |-> duration, reason |-> reason,
     pc |-> "start", requests |-> <<>>, result |-> None, saved |-> 0,
     file_ops |-> <<>>, path |-> None, initial_size |-> None]

\* thread.start(); self._active_threads.append(thread)
thread_start(ths, th) == Append(ths, th)

\* what a handler leaves behind: the state, the caller's position, the
\* threads and the notification passed to on_event
Outcome(st, pos, ths, ev) ==
    [state |-> st, pos |-> pos, threads |-> ths, emitted |-> ev]

\* self.on_event(ev) when a listener is set
Emit(ev) == IF on_event THEN ev ELSE NoEvent

NumOr(o, d) == IF TruthyNum(o) THEN Val(o) ELSE d
StrOr(o, d) == IF TruthyStr(o) THEN Val(o) ELSE d

---------------------------------------------------------------------------
(* CombatParser: the handlers *)

\* _handle_dungeon_start without its test of dungeon_active
_handle_dungeon_start_again(st, pos, ths, event, t) ==
    LET dungeon_info == get_dungeon_info(event)
    IN  IF dungeon_info = None THEN Outcome(st, pos, ths, NoEvent)
        ELSE LET d == Val(dungeon_info)
             IN  Outcome(start_dungeon(st, d.dungeon_id, d.name, d.dungeon_level, t),
                         pos,
                         thread_start(ths, Thread("dungeon_start", d, 0, <<>>)),
                         Emit([type |-> "DUNGEON_START",
                               timestamp |-> d.timestamp,
                               dungeon_name |-> Some(d.name),
                               dungeon_level |-> Some(d.dungeon_level),
                               dungeon_id |-> d.dungeon_id]))

_handle_dungeon_start(st, pos, ths, event, t) ==
    IF st.dungeon_active THEN Outcome(st, pos, ths, NoEvent)
    ELSE LET dungeon_info == get_dungeon_info(event)
         IN  IF dungeon_info = None THEN Outcome(st, pos, ths, NoEvent)
             ELSE LET d == Val(dungeon_info)
                  IN  Outcome(start_dungeon(st, d.dungeon_id, d.name,
                                            d.dungeon_level, t),
                              pos,
                              thread_start(ths, Thread("dungeon_start", d, 0, <<>>)),
                              Emit([type |-> "DUNGEON_START",
                                    timestamp |-> d.timestamp,
                                    dungeon_name |-> Some(d.name),
                                    dungeon_level |-> Some(d.dungeon_level),
                                    dungeon_id |-> d.dungeon_id]))

\* _handle_dungeon_end up to its time.sleep(3)
_handle_dungeon_end(st, pos, ths, event, reason, t) ==
    IF ~st.dungeon_active THEN Outcome(st, pos, ths, NoEvent)
    ELSE LET dungeon_name == st.dungeon_name
             dungeon_level == st.dungeon_level
             dungeon_duration == get_encounter_duration(st, t)
             is_success == Len(event.fields) >= 5 /\ Field(event, 4) = <<"1">>
             dungeon_info == DungeonInfo(NumOr(st.dungeon_id, 0),
                                         StrOr(dungeon_name, UnknownDungeon),
                                         NumOr(dungeon_level, 0),
                                         event.timestamp)
         IN  Outcome(st,
                     InGrace("dungeon_end", dungeon_info, dungeon_duration, reason),
                     ths,
                     Emit([type |-> "DUNGEON_END",
                           timestamp |-> event.timestamp,
                           dungeon_name |-> dungeon_name,
                           dungeon_level |-> dungeon_level,
                           duration |-> dungeon_duration,
                           is_success |-> is_success,
                           reason |-> reason]))

\* _handle_zone_change comparing the names as they are written
_handle_zone_change_case_sensitive(st, pos, ths, event, t) ==
    IF ~st.dungeon_active THEN Outcome(st, pos, ths, NoEvent)
    ELSE IF Len(event.fields) >= 3
            /\ TruthyStr(st.dungeon_name)
            /\ ~IsSubstring(Val(st.dungeon_name), Field(event, 2))
         THEN _handle_dungeon_end(st, pos, ths, event, "zone_change", t)
         ELSE Outcome(st, pos, ths, NoEvent)

_handle_zone_change(st, pos, ths, event, t) ==
    IF ~st.dungeon_active THEN Outcome(st, pos, ths, NoEvent)
    ELSE IF Len(event.fields) >= 3
            /\ TruthyStr(st.dungeon_name)
            /\ ~IsSubstring(Lower(Val(st.dungeon_name)), Lower(Field(event, 2)))
         THEN _handle_dungeon_end(st, pos, ths, event, "zone_change", t)
         ELSE Outcome(st, pos, ths, NoEvent)

\* the line the monitor makes up, parsed: "<time>  CHALLENGE_MODE_END,<id>,<name>,0,0"
SyntheticEvent(st, t) ==
    CHOOSE event \in
        { CombatEvent(IntToStr(t), SplitFields(line, <<>>)) :
            line \in { CHALLENGE_MODE_END \o <<",">> \o IntToStr(Val(st.dungeon_id))
                       \o <<",">> \o Val(st.dungeon_name)
                       \o <<",", "0", ",", "0">> } } : TRUE

\* _handle_dungeon_timeout passing on the default reason
_handle_dungeon_timeout_default_reason(st, pos, ths, t) ==
    IF ~st.dungeon_active THEN Outcome(st, pos, ths, NoEvent)
    ELSE _handle_dungeon_end(st, pos, ths, SyntheticEvent(st, t), "dungeon_complete", t)

\* _handle_dungeon_timeout acting only on a dungeon flagged as recording
_handle_dungeon_timeout_if_recording(st, pos, ths, t) ==
    IF ~st.dungeon_active \/ ~st.recording THEN Outcome(st, pos, ths, NoEvent)
    ELSE _handle_dungeon_end(st, pos, ths, SyntheticEvent(st, t), "timeout", t)

_handle_dungeon_timeout(st, pos, ths, t) ==
    IF ~st.dungeon_active THEN Outcome(st, pos, ths, NoEvent)
    ELSE _handle_dungeon_end(st, pos, ths, SyntheticEvent(st, t), "timeout", t)

_handle_encounter_start(st, pos, ths, event, cfg, t) ==
    IF is_recording(st) THEN Outcome(st, pos, ths, NoEvent)
    ELSE LET parsed == get_boss_info(event)
         IN  IF parsed = None THEN Outcome(st, pos, ths, NoEvent)
             ELSE LET b == Val(parsed)
                      overridden == {o \in cfg.BOSS_NAME_OVERRIDES : o[1] = b.boss_id}
                      boss_info ==
                          IF overridden = {} THEN b
                          ELSE [b EXCEPT !.name = (CHOOSE o \in overridden : TRUE)[2]]
                  IN  Outcome(start_encounter(st, boss_info.boss_id, boss_info.name,
                                              boss_info.difficulty_id,
                                              boss_info.instance_id, t),
                              pos,
                              thread_start(ths, Thread("encounter_start", boss_info,
                                                       0, <<>>)),
                              Emit([type |-> "ENCOUNTER_START",
                                    timestamp |-> boss_info.timestamp,
                                    boss_name |-> Some(boss_info.name),
                                    difficulty_id |-> Some(boss_info.difficulty_id)]))

\* _handle_encounter_end without the early return of an inactive encounter
_handle_encounter_end_unguarded(st, pos, ths, event, t) ==
    LET boss_name == st.boss_name
        difficulty_id == st.difficulty_id
        encounter_duration == get_encounter_duration(st, t)
        is_kill == Len(event.fields) >= 6 /\ Field(event, 5) = <<"1">>
        boss_info == BossInfo(NumOr(st.boss_id, 0),
                              StrOr(boss_name, Unknown),
                              NumOr(difficulty_id, 0),
                              NumOr(st.instance_id, 0),
                              event.timestamp)
    IN  Outcome(st,
                InGrace("encounter_end", boss_info, encounter_duration, <<>>),
                ths,
                Emit([type |-> "ENCOUNTER_END",
                      timestamp |-> event.timestamp,
                      boss_name |-> boss_name,
                      difficulty_id |-> difficulty_id,
                      duration |-> encounter_duration,
                      is_kill |-> is_kill]))

\* _handle_encounter_end up to its time.sleep(3)
_handle_encounter_end(st, pos, ths, event, t) ==
    IF ~st.encounter_active THEN Outcome(st, pos, ths, NoEvent)
    ELSE LET boss_name == st.boss_name
             difficulty_id == st.difficulty_id
             encounter_duration == get_encounter_duration(st, t)
             is_kill == Len(event.fields) >= 6 /\ Field(event, 5) = <<"1">>
             boss_info == BossInfo(NumOr(st.boss_id, 0),
                                   StrOr(boss_name, Unknown),
                                   NumOr(difficulty_id, 0),
                                   NumOr(st.instance_id, 0),
                                   event.timestamp)
         IN  Outcome(st,
                     InGrace("encounter_end", boss_info, encounter_duration, <<>>),
                     ths,
                     Emit([type |-> "ENCOUNTER_END",
                           timestamp |-> event.timestamp,
                           boss_name |-> boss_name,
                           difficulty_id |-> difficulty_id,
                           duration |-> encounter_duration,
                           is_kill |-> is_kill]))

process_line(st, pos, ths, event, cfg, t) ==
    IF ~is_valid(event) THEN Outcome(st, pos, ths, NoEvent)
    ELSE LET st1 == IF st.dungeon_active THEN update_activity(st, t) ELSE st
         IN  IF is_dungeon_start(event)
                 THEN _handle_dungeon_start(st1, pos, ths, event, t)
             ELSE IF is_dungeon_end(event)
                 THEN _handle_dungeon_end(st1, pos, ths, event, "dungeon_complete", t)
             ELSE IF is_zone_change(event)
                 THEN _handle_zone_change(st1, pos, ths, event, t)
             ELSE IF is_encounter_start(event)
                 THEN _handle_encounter_start(st1, pos, ths, event, cfg, t)
             ELSE IF is_encounter_end(event)
                 THEN _handle_encounter_end(st1, pos, ths, event, t)
             ELSE Outcome(st1, pos, ths, NoEvent)

---------------------------------------------------------------------------
(* RecordingProcessor and OBSClient, as run by the background threads *)

IsBegin(th) == th.target \in {"encounter_start", "dungeon_start"}

\* the finish pipelines without their first check
GateOpen_begin_only(cfg, th) ==
    IF th.target = "encounter_start"
    THEN is_difficulty_enabled(cfg, th.info.difficulty_id)
    ELSE IF th.target = "dungeon_start" THEN cfg.RECORD_MPLUS
    ELSE TRUE

\* the first check of process_encounter_start, process_dungeon_start,
\* process_encounter_end and process_dungeon_end
GateOpen(cfg, th) ==
    IF th.target \in {"encounter_start", "encounter_end"}
    THEN is_difficulty_enabled(cfg, th.info.difficulty_id)
    ELSE cfg.RECORD_MPLUS

\* what OBSClient.start_recording and OBSClient.stop_recording hand back when
\* they do not raise: both end in a bare return
start_recording_returns_true == Some(TRUE)
start_recording_returns == None
stop_recording_returns == None

\* truth value of what an OBSClient call returned
Truthy(ret) == ret # None /\ Val(ret) = TRUE

\* the thread function once the RecordingProcessor call has returned result:
\* a finish thread calls on_recording_saved when it is set
ThreadReturned(th, result) ==
    [th EXCEPT !.pc = "done", !.result = Some(result),
               !.saved = IF ~IsBegin(th) /\ on_recording_saved THEN 1 ELSE 0]

\* every thread function marking the state, whatever the processor reported
StateReturned_always(st, th, result, t) == start_recording(st, t)

\* a begin thread marks the state when the RecordingProcessor reported success
StateReturned(st, th, result, t) ==
    IF IsBegin(th) /\ result THEN start_recording(st, t) ELSE st

\* process_*: the OBSClient call returned ret ("if not self.obs...: return False")
AfterObs(th, ret) ==
    IF ~Truthy(ret) THEN ThreadReturned(th, FALSE)
    ELSE IF IsBegin(th) THEN ThreadReturned(th, TRUE)
    ELSE [th EXCEPT !.pc = "rename_delay"]

ObsReturns(th) == IF IsBegin(th) THEN start_recording_returns ELSE stop_recording_returns

\* the processor's result in AfterObs, for the state update of a begin thread
ObsResult(th, ret) == Truthy(ret)

\* the thread makes a websocket request (th.requests lists them in order,
\* the one that raised included)
Request(th, name) == [th EXCEPT !.requests = Append(@, name)]

---------------------------------------------------------------------------
(* The steps *)

Init ==
    /\ config \in Configs
    /\ files = RecordingDirectory
    /\ on_event = TRUE
    /\ on_recording_saved = TRUE
    /\ state = InitialState
    /\ record_active = FALSE
    /\ ingest = Ready
    /\ monitor = Sleeping
    /\ _dungeon_monitor_running = TRUE
    /\ main = Running
    /\ dungeon_monitor = DungeonMonitor(FALSE)
    /\ threads = <<>>
    /\ now = 1
    /\ emitted = NoEvent

\* time passes
Tick ==
    /\ now < MaxTime
    /\ now' = now + 1
    /\ emitted' = NoEvent
    /\ UNCHANGED <<dungeon_monitor, _dungeon_monitor_running, main, config, files, on_event, on_recording_saved, state, record_active,
                   ingest, monitor, threads>>

\* process_line(line), up to its return or to the time.sleep(3) of an
\* end-transition
ProcessLine(event) ==
    /\ ingest.pc = "ready"
    /\ Len(threads) < MaxThreads
    /\ \E out \in {process_line(state, ingest, threads, event, config, now)} :
           /\ state' = out.state
           /\ ingest' = out.pos
           /\ threads' = out.threads
           /\ emitted' = out.emitted
    /\ UNCHANGED <<dungeon_monitor, _dungeon_monitor_running, main, config, files, on_event, on_recording_saved, record_active, monitor, now>>

\* an end-transition that joins the background threads before it goes on
EndTransition_joining(pos) ==
    /\ pos.pc = "grace"
    /\ \A i \in 1..Len(threads) : threads[i].pc \in {"done", "raised"}
    /\ threads' = thread_start(threads,
                               Thread(pos.target, pos.info, pos.duration, pos.reason))
    /\ state' = reset(state)
    /\ emitted' = NoEvent

\* an end-transition that measures the duration after its time.sleep(3)
EndTransition_measuring_late(pos) ==
    /\ pos.pc = "grace"
    /\ threads' = thread_start(threads,
                               Thread(pos.target, pos.info,
                                      get_encounter_duration(state, now), pos.reason))
    /\ state' = reset(state)
    /\ emitted' = NoEvent

\* the rest of an end-transition after time.sleep(3): the finish thread is
\* started and the state reset
EndTransition(pos) ==
    /\ pos.pc = "grace"
    /\ threads' = thread_start(threads,
                               Thread(pos.target, pos.info, pos.duration, pos.reason))
    /\ state' = reset(state)
    /\ emitted' = NoEvent

\* process_line(line) while the monitor ends its end-transition.  Nothing
\* orders the two threads: the monitor's state.reset() can run between the two
\* reads of encounter_start_time in get_encounter_duration ("if not
\* self.encounter_start_time" and "time.time() - self.encounter_start_time"),
\* the subtraction then meets None and raises TypeError, which no handler and
\* not process_line catches.  (The same race on the monitor's side is caught
\* by the loop of the monitor and leaves nothing behind.)
ProcessLineDuringReset(event) ==
    /\ ingest.pc = "ready"
    /\ Len(threads) < MaxThreads
    /\ TruthyNum(state.encounter_start_time)
    /\ process_line(state, ingest, threads, event, config, now).pos.pc = "grace"
    /\ EndTransition(monitor)
    /\ monitor' = Sleeping
    /\ ingest' = Raised
    /\ UNCHANGED <<dungeon_monitor, _dungeon_monitor_running, main, config, files, on_event, on_recording_saved, record_active, now>>

IngestGraceElapsed ==
    /\ EndTransition(ingest)
    /\ ingest' = Ready
    /\ UNCHANGED <<dungeon_monitor, _dungeon_monitor_running, main, config, files, on_event, on_recording_saved, record_active, monitor, now>>

\* the rest of an end-transition of the ingestion thread, switched out
\* inside state.reset() after "self.encounter_active = False"
IngestResetPreempted ==
    /\ ingest.pc = "grace"
    /\ threads' = thread_start(threads,
                               Thread(ingest.target, ingest.info, ingest.duration,
                                      ingest.reason))
    /\ state' = _reset_all_upto_encounter_active(state)
    /\ ingest' = Resetting
    /\ emitted' = NoEvent
    /\ UNCHANGED <<dungeon_monitor, _dungeon_monitor_running, main, config, files, on_event, on_recording_saved, record_active, monitor, now>>

\* the ingestion thread is switched in again: the remaining assignments of
\* the reset, then the handler and process_line return
IngestResetResumed ==
    /\ ingest.pc = "reset"
    /\ state' = reset(state)
    /\ ingest' = Ready
    /\ emitted' = NoEvent
    /\ UNCHANGED <<dungeon_monitor, _dungeon_monitor_running, main, config, files, on_event, on_recording_saved, record_active, monitor,
                   threads, now>>

\* the body of one round of _dungeon_monitor_loop, up to its time.sleep(5) or
\* to the time.sleep(3) of the end-transition it starts
MonitorRound ==
    /\ \E out \in { IF state.dungeon_active
                        /\ is_dungeon_idle(state, DUNGEON_TIMEOUT_SECONDS, now)
                     THEN _handle_dungeon_timeout(state, Sleeping, threads, now)
                     ELSE Outcome(state, Sleeping, threads, NoEvent) } :
           /\ state' = out.state
           /\ monitor' = out.pos
           /\ threads' = out.threads
           /\ emitted' = out.emitted
    /\ UNCHANGED <<dungeon_monitor, _dungeon_monitor_running, main, config, files, on_event, on_recording_saved, record_active, ingest, now>>

\* the time.sleep(5) returns, the while finds _dungeon_monitor_running set
\* and the round runs
MonitorTick ==
    /\ monitor.pc = "sleep"
    /\ _dungeon_monitor_running
    /\ MonitorRound

\* the time.sleep(5) returns and the while finds _dungeon_monitor_running
\* set; the thread is switched out before the body of the round
MonitorPreempted ==
    /\ monitor.pc = "sleep"
    /\ _dungeon_monitor_running
    /\ monitor' = Tested
    /\ emitted' = NoEvent
    /\ UNCHANGED <<dungeon_monitor, _dungeon_monitor_running, main, config, files, on_event, on_recording_saved, state,
                   record_active, ingest, threads, now>>

\* the monitor is switched in again: the body of the round
MonitorResumed ==
    /\ monitor.pc = "tested"
    /\ MonitorRound

\* the time.sleep(5) returns, the while finds _dungeon_monitor_running
\* cleared and the loop ends
MonitorStopped ==
    /\ monitor.pc = "sleep"
    /\ ~_dungeon_monitor_running
    /\ monitor' = Stopped
    /\ emitted' = NoEvent
    /\ UNCHANGED <<dungeon_monitor, _dungeon_monitor_running, main, config, files, on_event, on_recording_saved, state,
                   record_active, ingest, threads, now>>

\* one round of _dungeon_monitor_loop while the ingestion thread ends its
\* end-transition: the state.reset() of the handler runs between the two
\* reads of encounter_start_time in the monitor's get_encounter_duration, the
\* TypeError leaves _handle_dungeon_timeout and is caught by the loop
MonitorTickDuringReset ==
    /\ monitor.pc = "sleep"
    /\ _dungeon_monitor_running
    /\ state.dungeon_active
    /\ is_dungeon_idle(state, DUNGEON_TIMEOUT_SECONDS, now)
    /\ TruthyNum(state.encounter_start_time)
    /\ EndTransition(ingest)
    /\ ingest' = Ready
    /\ monitor' = Caught
    /\ UNCHANGED <<dungeon_monitor, _dungeon_monitor_running, main, config, files, on_event, on_recording_saved, record_active, now>>

\* the time.sleep(5) of the except branch returns: the loop is at the test
\* of its while
MonitorSleptAfterError ==
    /\ monitor.pc = "caught"
    /\ monitor' = Sleeping
    /\ emitted' = NoEvent
    /\ UNCHANGED <<dungeon_monitor, _dungeon_monitor_running, main, config, files, on_event, on_recording_saved, state, record_active,
                   ingest, threads, now>>

MonitorGraceElapsed ==
    /\ EndTransition(monitor)
    /\ monitor' = Sleeping
    /\ UNCHANGED <<dungeon_monitor, _dungeon_monitor_running, main, config, files, on_event, on_recording_saved, record_active, ingest, now>>

\* a thread is scheduled: the gate of process_*, then OBSClient's
\* get_record_status request; start_recording returns at once when a recording
\* is active already, stop_recording when none is
ThreadStart(i) ==
    /\ i \in 1..Len(threads)
    /\ threads[i].pc = "start"
    /\ LET th == threads[i]
           nothing_to_do == IF IsBegin(th) THEN record_active ELSE ~record_active
       IN  IF ~GateOpen(config, th)
           THEN /\ threads' = [threads EXCEPT ![i] = ThreadReturned(th, FALSE)]
                /\ state' = StateReturned(state, th, FALSE, now)
           ELSE LET asked == Request(th, "GetRecordStatus")
                IN  IF nothing_to_do
                    THEN /\ threads' = [threads EXCEPT
                                            ![i] = AfterObs(asked, ObsReturns(th))]
                         /\ state' = StateReturned(state, th,
                                                   ObsResult(th, ObsReturns(th)), now)
                    ELSE /\ threads' = [threads EXCEPT
                                            ![i] = [asked EXCEPT !.pc = "obs_command"]]
                         /\ state' = state
    /\ emitted' = NoEvent
    /\ UNCHANGED <<dungeon_monitor, _dungeon_monitor_running, main, config, files, on_event, on_recording_saved, record_active, ingest,
                   monitor, now>>

\* ws.start_record() / ws.stop_record() carried out by OBS; the OBSClient
\* call then sleeps (0.5 s, 1 s) and returns, and the thread function ends
ObsCommand(i) ==
    /\ i \in 1..Len(threads)
    /\ threads[i].pc = "obs_command"
    /\ record_active' = IsBegin(threads[i])
    /\ LET th == Request(threads[i], IF IsBegin(threads[i]) THEN "StartRecord"
                                     ELSE "StopRecord")
       IN  /\ threads' = [threads EXCEPT ![i] = AfterObs(th, ObsReturns(th))]
           /\ state' = StateReturned(state, th, ObsResult(th, ObsReturns(th)), now)
    /\ emitted' = NoEvent
    /\ UNCHANGED <<dungeon_monitor, _dungeon_monitor_running, main, config, files, on_event, on_recording_saved, ingest, monitor, now>>

\* a websocket request raises (OBS unreachable, request rejected): the
\* OBSClient re-raises, nothing up to the thread function catches it
ObsRaises(i) ==
    /\ i \in 1..Len(threads)
    /\ \/ threads[i].pc = "start" /\ GateOpen(config, threads[i])
       \/ threads[i].pc = "obs_command"
    /\ threads' = [threads EXCEPT
                       ![i] = [Request(@, IF @.pc = "start" THEN "GetRecordStatus"
                                          ELSE IF IsBegin(@) THEN "StartRecord"
                                          ELSE "StopRecord")
                               EXCEPT !.pc = "raised"]]
    /\ emitted' = NoEvent
    /\ UNCHANGED <<dungeon_monitor, _dungeon_monitor_running, main, config, files, on_event, on_recording_saved, state, record_active,
                   ingest, monitor, now>>

\* a file operation of a thread, as kept in its file_ops
FileOp(op, name, target) == [op |-> op, name |-> name, target |-> target]

\* recording_path.rename(new_path) of POSIX: the file takes the new name and a
\* file that had that name is replaced
Renamed(dir, file, new_name) ==
    {f \in dir : f.name # new_name /\ f # file} \cup {[file EXCEPT !.name = new_name]}

\* rename_recording(recording_path, info) on the file, which exists: the name
\* it renames the file to
rename_target(file, info, cfg, dir) ==
    _handle_duplicate_filename(generate_filename(info, file.mtime, cfg),
                               info, file.mtime, cfg, dir)

\* _process_recording_file up to its return or to the time.sleep of
\* validate_file_stable
ProcessRecordingFile(i) ==
    /\ i \in 1..Len(threads)
    /\ threads[i].pc = "process_file"
    /\ LET th == threads[i]
       IN  IF th.duration < config.MIN_RECORDING_DURATION
           THEN \* _handle_short_recording
                IF ~config.DELETE_SHORT_RECORDINGS
                THEN /\ threads' = [threads EXCEPT ![i] = ThreadReturned(th, TRUE)]
                     /\ files' = files
                ELSE IF LatestRecordings(files) = {}
                THEN /\ threads' = [threads EXCEPT ![i] = ThreadReturned(th, FALSE)]
                     /\ files' = files
                ELSE \E f \in LatestRecordings(files) :
                        \* delete_recording: exists(), unlink()
                        /\ files' = files \ {f}
                        /\ threads' = [threads EXCEPT ![i] = ThreadReturned(
                               [th EXCEPT !.file_ops =
                                   Append(@, FileOp("delete", f.name, <<>>))], TRUE)]
           ELSE IF LatestRecordings(files) = {}
                THEN /\ threads' = [threads EXCEPT ![i] = ThreadReturned(th, FALSE)]
                     /\ files' = files
                ELSE \E f \in LatestRecordings(files) :
                        \* validate_file_stable: exists(), the first sample
                        /\ threads' = [threads EXCEPT ![i] =
                               [th EXCEPT !.pc = "stability_sleep",
                                          !.path = Some(f.name),
                                          !.initial_size = Some(f.size)]]
                        /\ files' = files
    /\ emitted' = NoEvent
    /\ UNCHANGED <<dungeon_monitor, _dungeon_monitor_running, main, config, on_event, on_recording_saved, state, record_active,
                   ingest, monitor, now>>

\* validate_file_stable without the comparison of the two samples
samples_agree_if_present(found, initial_size) == found # {}

\* validate_file_stable after its sleep, found being the files of the path:
\* stat() finds the file and final_size equals initial_size
samples_agree(found, initial_size) ==
    found # {} /\ \A f \in found : f.size = initial_size

\* validate_file_stable after its time.sleep(check_interval): the second
\* sample (stat() of a file that is gone raises, which is caught), and, the
\* file being stable, rename_recording
ResampleAndRename(i) ==
    /\ i \in 1..Len(threads)
    /\ threads[i].pc = "stability_sleep"
    /\ LET th == threads[i]
           found == {f \in files : f.name = Val(th.path)}
       IN  IF ~samples_agree(found, Val(th.initial_size))
           THEN /\ threads' = [threads EXCEPT ![i] = ThreadReturned(th, FALSE)]
                /\ files' = files
           ELSE \E f \in found :
                \E new_name \in {rename_target(f, th.info, config, files)} :
                   /\ files' = Renamed(files, f, new_name)
                   /\ threads' = [threads EXCEPT ![i] = ThreadReturned(
                          [th EXCEPT !.file_ops =
                              Append(@, FileOp("rename", f.name, new_name))], TRUE)]
    /\ emitted' = NoEvent
    /\ UNCHANGED <<dungeon_monitor, _dungeon_monitor_running, main, config, on_event, on_recording_saved, state, record_active,
                   ingest, monitor, now>>

\* OBS is still writing the file whose stability is being checked
FileWritten(i) ==
    /\ i \in 1..Len(threads)
    /\ threads[i].pc = "stability_sleep"
    /\ \E f \in files :
          /\ f.name = Val(threads[i].path)
          /\ f.size < MaxSize
          /\ files' = (files \ {f}) \cup {[f EXCEPT !.size = @ + 1]}
    /\ emitted' = NoEvent
    /\ UNCHANGED <<dungeon_monitor, _dungeon_monitor_running, main, config, on_event, on_recording_saved, state, record_active,
                   ingest, monitor, threads, now>>

\* the file whose stability is being checked is removed by someone else
FileRemoved(i) ==
    /\ i \in 1..Len(threads)
    /\ threads[i].pc = "stability_sleep"
    /\ \E f \in files :
          /\ f.name = Val(threads[i].path)
          /\ files' = files \ {f}
    /\ emitted' = NoEvent
    /\ UNCHANGED <<dungeon_monitor, _dungeon_monitor_running, main, config, on_event, on_recording_saved, state, record_active,
                   ingest, monitor, threads, now>>

Next ==
    \/ Tick
    \/ \E event \in LogLines : ProcessLine(event)
    \/ \E event \in LogLines : ProcessLineDuringReset(event)
    \/ IngestGraceElapsed
    \/ IngestResetPreempted
    \/ IngestResetResumed
    \/ MonitorTick
    \/ MonitorTickDuringReset
    \/ MonitorSleptAfterError
    \/ MonitorGraceElapsed
    \/ \E i \in 1..Len(threads) : ThreadStart(i)
    \/ \E i \in 1..Len(threads) : ObsCommand(i)
    \/ \E i \in 1..Len(threads) : ObsRaises(i)

Spec == Init /\ [][Next]_vars

\* the configurations with a display name for boss 26 in [BossNames]
OverrideConfigs ==
    { [c EXCEPT !.BOSS_NAME_OVERRIDES = {<<26, <<"R", "x">>>>}] : c \in Configs }

InitOverride ==
    /\ config \in OverrideConfigs
    /\ files = RecordingDirectory
    /\ on_event = TRUE
    /\ on_recording_saved = TRUE
    /\ state = InitialState
    /\ record_active = FALSE
    /\ ingest = Ready
    /\ monitor = Sleeping
    /\ _dungeon_monitor_running = TRUE
    /\ main = Running
    /\ dungeon_monitor = DungeonMonitor(FALSE)
    /\ threads = <<>>
    /\ now = 1
    /\ emitted = NoEvent

\* the program run with boss name overrides
OverrideSpec == InitOverride /\ [][Next]_vars

\* the program reading a log that also has the uncommon lines
NextUncommon ==
    \/ Next
    \/ \E event \in UncommonLines : ProcessLine(event)

UncommonSpec == Init /\ [][NextUncommon]_vars

---------------------------------------------------------------------------
(* CombatParser.shutdown *)

\* Thread.is_alive() of a begin/finish thread
is_alive(th) == th.pc \notin {"done", "raised"}

\* Thread.join(timeout) returns: the thread ended, or the timeout passed
join(alive, timeout) == ~alive \/ timeout > 0

\* shutdown is called: the flag is cleared; the main thread is at the join of
\* the monitor thread
Shutdown ==
    /\ main = Running
    /\ dungeon_monitor = DungeonMonitor(FALSE)
    /\ _dungeon_monitor_running' = FALSE
    /\ main' = JoiningMonitor
    /\ emitted' = NoEvent
    /\ UNCHANGED <<dungeon_monitor, config, files, on_event, on_recording_saved, state, record_active,
                   ingest, monitor, threads, now>>

\* "if ...is_alive(): self._dungeon_monitor_thread.join(timeout=2.0)" returns
ShutdownMonitorJoined ==
    /\ main = JoiningMonitor
    /\ join(monitor.pc \notin {"stopped", "raised"}, 2)
    /\ main' = JoiningThreads(1)
    /\ emitted' = NoEvent
    /\ UNCHANGED <<dungeon_monitor, _dungeon_monitor_running, config, files, on_event, on_recording_saved,
                   state, record_active, ingest, monitor, threads, now>>

\* one round of "for thread in self._active_threads": "if thread.is_alive():
\* thread.join(timeout=5.0)" returns
ShutdownThreadJoined ==
    /\ main.pc = "join_threads"
    /\ main.i <= Len(threads)
    /\ join(is_alive(threads[main.i]), 5)
    /\ main' = JoiningThreads(main.i + 1)
    /\ emitted' = NoEvent
    /\ UNCHANGED <<dungeon_monitor, _dungeon_monitor_running, config, files, on_event, on_recording_saved,
                   state, record_active, ingest, monitor, threads, now>>

\* the for loop is over: self._active_threads.clear() (the threads
\* themselves are not touched) and shutdown returns
ShutdownReturned ==
    /\ main.pc = "join_threads"
    /\ main.i > Len(threads)
    /\ main' = ShutdownComplete
    /\ emitted' = NoEvent
    /\ UNCHANGED <<dungeon_monitor, _dungeon_monitor_running, config, files, on_event, on_recording_saved,
                   state, record_active, ingest, monitor, threads, now>>

\* the program with its shutdown, and with the monitor thread switched out
\* between the test of its while and the body of the round
NextShutdown ==
    \/ Next
    \/ MonitorPreempted
    \/ MonitorResumed
    \/ MonitorStopped
    \/ Shutdown
    \/ ShutdownMonitorJoined
    \/ ShutdownThreadJoined
    \/ ShutdownReturned

ShutdownSpec == Init /\ [][NextShutdown]_vars

\* the main thread runs: each join of shutdown returns
ShutdownLiveSpec ==
    /\ ShutdownSpec
    /\ WF_vars(ShutdownMonitorJoined)
    /\ WF_vars(ShutdownThreadJoined)
    /\ WF_vars(ShutdownReturned)

\* the monitor is a thread of its own: the time.sleep(5) of its except branch
\* returns
LiveSpec == Init /\ [][Next]_vars /\ WF_vars(MonitorSleptAfterError)

---------------------------------------------------------------------------
(* RecordingProcessor._process_recording_file run on a directory *)

\* the snapshots the finish threads are given
BossSnapshot == BossInfo(26, <<"R", "a">>, 15, 9, TS)
DungeonSnapshot == DungeonInfo(41, <<"T", "a">>, 14, TS)

\* the names the recording of modification time 1 is to take: the name for
\* the snapshot, and the names of the attempts 1, 2 and 3
BossNames ==
    << <<"1", "9", "7", "0", "-", "0", "1", "-", "0", "1", "_", "0", "0", "-", "0", "0", "-", "0", "1", "_", "R", "a", "_", "H", "e", "r", "o", "i", "c", ".", "m", "p", "4">>,
       <<"1", "9", "7", "0", "-", "0", "1", "-", "0", "1", "_", "0", "0", "-", "0", "0", "-", "0", "1", "_", "R", "a", "_", "a", "t", "t", "e", "m", "p", "t", "1", "_", "H", "e", "r", "o", "i", "c", ".", "m", "p", "4">>,
       <<"1", "9", "7", "0", "-", "0", "1", "-", "0", "1", "_", "0", "0", "-", "0", "0", "-", "0", "1", "_", "R", "a", "_", "a", "t", "t", "e", "m", "p", "t", "2", "_", "H", "e", "r", "o", "i", "c", ".", "m", "p", "4">>,
       <<"1", "9", "7", "0", "-", "0", "1", "-", "0", "1", "_", "0", "0", "-", "0", "0", "-", "0", "1", "_", "R", "a", "_", "a", "t", "t", "e", "m", "p", "t", "3", "_", "H", "e", "r", "o", "i", "c", ".", "m", "p", "4">> >>
DungeonNames ==
    << <<"1", "9", "7", "0", "-", "0", "1", "-", "0", "1", "_", "0", "0", "-", "0", "0", "-", "0", "1", "_", "T", "a", "_", "M", "+", "1", "4", ".", "m", "p", "4">>,
       <<"1", "9", "7", "0", "-", "0", "1", "-", "0", "1", "_", "0", "0", "-", "0", "0", "-", "0", "1", "_", "T", "a", "_", "a", "t", "t", "e", "m", "p", "t", "1", "_", "M", "+", "1", "4", ".", "m", "p", "4">>,
       <<"1", "9", "7", "0", "-", "0", "1", "-", "0", "1", "_", "0", "0", "-", "0", "0", "-", "0", "1", "_", "T", "a", "_", "a", "t", "t", "e", "m", "p", "t", "2", "_", "M", "+", "1", "4", ".", "m", "p", "4">>,
       <<"1", "9", "7", "0", "-", "0", "1", "-", "0", "1", "_", "0", "0", "-", "0", "0", "-", "0", "1", "_", "T", "a", "_", "a", "t", "t", "e", "m", "p", "t", "3", "_", "M", "+", "1", "4", ".", "m", "p", "4">> >>

\* a file that is no video, newer than the recording
Notes == File(<<"n", ".", "t", "x", "t">>, 1, 2)

\* the directories: the recording of OBS or none, with or without the newer
\* file, and any of the four names taken by older files
Directories(names) ==
    { base \cup {File(names[k], 1, 0) : k \in taken} :
        base \in {{}, RecordingDirectory, RecordingDirectory \cup {Notes}},
        taken \in SUBSET (1..4) }

\* the configurations of the file handling: short recordings deleted or kept,
\* one or two attempts
FileConfigs == { Config(TRUE, 1, d, a) : d \in BOOLEAN, a \in 1..2 }

\* _process_recording_file(boss_info=..., recording_duration=...) or
\* _process_recording_file(dungeon_info=..., recording_duration=...) is entered
InitFile ==
    /\ config \in FileConfigs
    /\ \E target \in {"encounter_end", "dungeon_end"}, duration \in 0..1 :
          /\ files \in Directories(IF target = "encounter_end" THEN BossNames
                                   ELSE DungeonNames)
          /\ threads = << [Thread(target,
                                  IF target = "encounter_end" THEN BossSnapshot
                                  ELSE DungeonSnapshot,
                                  duration, <<>>)
                           EXCEPT !.pc = "process_file"] >>
    /\ on_event = TRUE
    /\ on_recording_saved = TRUE
    /\ state = InitialState
    /\ record_active = FALSE
    /\ ingest = Ready
    /\ monitor = Sleeping
    /\ _dungeon_monitor_running = TRUE
    /\ main = Running
    /\ dungeon_monitor = DungeonMonitor(FALSE)
    /\ now = 1
    /\ emitted = NoEvent

NextFile ==
    \/ \E i \in 1..Len(threads) : ProcessRecordingFile(i)
    \/ \E i \in 1..Len(threads) : ResampleAndRename(i)
    \/ \E i \in 1..Len(threads) : FileWritten(i)
    \/ \E i \in 1..Len(threads) : FileRemoved(i)

FileSpec == InitFile /\ [][NextFile]_vars

---------------------------------------------------------------------------
(* RecordingFileManager.generate_filename run on raw names *)

\* the characters of the raw names: the ones formatted_name treats, a letter
\* and a digit
NameCharacters == SpecialCharacters \cup {"'", ",", " ", "-", "a", "7"}

\* the names a field of a line, stripped by the parser, can hold
RawNames ==
    {name \in UNION {[1..n -> NameCharacters] : n \in 0..MaxNameLen} : Strip(name) = name}

\* _process_recording_file is entered for a session of a raw name, the
\* recording of OBS in the directory
InitName ==
    /\ config = Config(TRUE, 1, TRUE, 2)
    /\ files = RecordingDirectory
    /\ \E name \in RawNames, target \in {"encounter_end", "dungeon_end"} :
          threads = << [Thread(target,
                               IF target = "encounter_end"
                               THEN [BossSnapshot EXCEPT !.name = name]
                               ELSE [DungeonSnapshot EXCEPT !.name = name],
                               1, <<>>)
                        EXCEPT !.pc = "process_file"] >>
    /\ on_event = TRUE
    /\ on_recording_saved = TRUE
    /\ state = InitialState
    /\ record_active = FALSE
    /\ ingest = Ready
    /\ monitor = Sleeping
    /\ _dungeon_monitor_running = TRUE
    /\ main = Running
    /\ dungeon_monitor = DungeonMonitor(FALSE)
    /\ now = 1
    /\ emitted = NoEvent

NextName ==
    \/ \E i \in 1..Len(threads) : ProcessRecordingFile(i)
    \/ \E i \in 1..Len(threads) : ResampleAndRename(i)

NameSpec == InitName /\ [][NextName]_vars

---------------------------------------------------------------------------
(* Two sessions and their recordings *)

\* the name OBS gives the file of the next recording
ObsNextOutput == <<"o", "b", "s", "2", ".", "m", "p", "4">>

\* the file OBS recorded the i-th session to: written in the order of the
\* sessions, the i-th has modification time i
RecordingOf(i) == File(IF i = 1 THEN ObsOutput ELSE ObsNextOutput, 1, i)

\* _process_recording_file is entered by the finish thread of an encounter
\* after its settling delay, while the dungeon that began during the delay is
\* being recorded by OBS or has ended too (its finish thread has entered
\* _process_recording_file as well)
InitTwoSessions ==
    /\ config \in FileConfigs
    /\ files = {RecordingOf(1), RecordingOf(2)}
    /\ \E first, second \in 0..1 :
          LET encounter == [Thread("encounter_end", BossSnapshot, first, <<>>)
                            EXCEPT !.pc = "process_file"]
              dungeon == [Thread("dungeon_end", DungeonSnapshot, second, <<>>)
                          EXCEPT !.pc = "process_file"]
          IN  threads \in {<<encounter>>, <<encounter, dungeon>>}
    /\ on_event = TRUE
    /\ on_recording_saved = TRUE
    /\ state = InitialState
    /\ record_active = FALSE
    /\ ingest = Ready
    /\ monitor = Sleeping
    /\ _dungeon_monitor_running = TRUE
    /\ main = Running
    /\ dungeon_monitor = DungeonMonitor(FALSE)
    /\ now = 1
    /\ emitted = NoEvent

TwoSessionsSpec == InitTwoSessions /\ [][NextFile]_vars

---------------------------------------------------------------------------
(* A dungeon after the last line of the log *)

\* a dungeon has begun and no line arrives any more: the last line read was
\* the CHALLENGE_MODE_START, or a ZONE_CHANGE whose handler is in its
\* time.sleep(3)
InitQuiet ==
    /\ config \in Configs
    /\ files = RecordingDirectory
    /\ on_event = TRUE
    /\ on_recording_saved = TRUE
    /\ state = start_dungeon(InitialState, DungeonSnapshot.dungeon_id,
                             DungeonSnapshot.name, DungeonSnapshot.dungeon_level, 1)
    /\ record_active = FALSE
    /\ ingest \in {Ready, InGrace("dungeon_end", DungeonSnapshot, 0, "zone_change")}
    /\ monitor = Sleeping
    /\ _dungeon_monitor_running = TRUE
    /\ main = Running
    /\ dungeon_monitor = DungeonMonitor(FALSE)
    /\ threads = <<Thread("dungeon_start", DungeonSnapshot, 0, <<>>)>>
    /\ now = 1
    /\ emitted = NoEvent

\* the program without process_line
NextQuiet ==
    \/ Tick
    \/ IngestGraceElapsed
    \/ IngestResetPreempted
    \/ IngestResetResumed
    \/ MonitorTick
    \/ MonitorTickDuringReset
    \/ MonitorSleptAfterError
    \/ MonitorGraceElapsed
    \/ \E i \in 1..Len(threads) : ThreadStart(i)
    \/ \E i \in 1..Len(threads) : ObsCommand(i)
    \/ \E i \in 1..Len(threads) : ObsRaises(i)

\* the monitor thread keeps being scheduled: its sleeps return, its rounds and
\* the rest of its end-transition run
QuietSpec ==
    /\ InitQuiet /\ [][NextQuiet]_vars
    /\ WF_vars(MonitorTick)
    /\ WF_vars(MonitorSleptAfterError)
    /\ WF_vars(MonitorGraceElapsed)

---------------------------------------------------------------------------
(* DungeonMonitor *)

\* the number of threads DungeonMonitor.start creates in a run of the model
MaxLoops == 3

\* the threads of the monitor whose loop has not ended
AliveLoops(dm) ==
    {i \in 1..Len(dm._monitor_threads) : dm._monitor_threads[i] # Stopped}

\* DungeonMonitor.start: nothing when _running is set; else the flag is set
\* and a new thread is started and stored in _monitor_thread
DungeonMonitorStart ==
    /\ dungeon_monitor.caller = "ready"
    /\ Len(dungeon_monitor._monitor_threads) < MaxLoops
    /\ dungeon_monitor' =
          IF dungeon_monitor._running THEN [dungeon_monitor EXCEPT !.called = 0]
          ELSE [dungeon_monitor EXCEPT !._running = TRUE,
                                       !._monitor_threads = Append(@, Sleeping),
                                       !.called = 0]
    /\ UNCHANGED <<_dungeon_monitor_running, main, config, files, on_event,
                   on_recording_saved, state, record_active, ingest, monitor, threads,
                   now, emitted>>

\* DungeonMonitor.stop up to its join: the flag is cleared; the join is on
\* _monitor_thread, the thread the last start created, when it is alive
DungeonMonitorStop ==
    /\ dungeon_monitor.caller = "ready"
    /\ LET n == Len(dungeon_monitor._monitor_threads)
       IN  dungeon_monitor' =
              [dungeon_monitor EXCEPT
                  !._running = FALSE,
                  !.caller = IF n > 0 /\ n \in AliveLoops(dungeon_monitor)
                             THEN "join" ELSE "ready",
                  !.called = 0]
    /\ UNCHANGED <<_dungeon_monitor_running, main, config, files, on_event,
                   on_recording_saved, state, record_active, ingest, monitor, threads,
                   now, emitted>>

\* self._monitor_thread.join(timeout=2.0) returns and so does stop
DungeonMonitorStopJoined ==
    /\ dungeon_monitor.caller = "join"
    /\ join(Len(dungeon_monitor._monitor_threads) \in AliveLoops(dungeon_monitor), 2)
    /\ dungeon_monitor' = [dungeon_monitor EXCEPT !.caller = "ready", !.called = 0]
    /\ UNCHANGED <<_dungeon_monitor_running, main, config, files, on_event,
                   on_recording_saved, state, record_active, ingest, monitor, threads,
                   now, emitted>>

\* one round of _monitor_loop in thread i: the test of the while, the idle
\* check and the call of on_timeout, up to the time.sleep of the round
DungeonMonitorRound(i) ==
    /\ i \in AliveLoops(dungeon_monitor)
    /\ dungeon_monitor' =
          IF ~dungeon_monitor._running
          THEN [dungeon_monitor EXCEPT !._monitor_threads[i] = Stopped, !.called = 0]
          ELSE IF /\ state.dungeon_active
                  /\ is_dungeon_idle(state, DUNGEON_TIMEOUT_SECONDS, now)
                  /\ dungeon_monitor.on_timeout
               THEN [dungeon_monitor EXCEPT !.called = i]
               ELSE [dungeon_monitor EXCEPT !.called = 0]
    /\ UNCHANGED <<_dungeon_monitor_running, main, config, files, on_event,
                   on_recording_saved, state, record_active, ingest, monitor, threads,
                   now, emitted>>

\* a DungeonMonitor built on a state that is idle or in a dungeon, with or
\* without an on_timeout callback
InitDungeonMonitor ==
    /\ config \in Configs
    /\ files = RecordingDirectory
    /\ on_event = TRUE
    /\ on_recording_saved = TRUE
    /\ state \in {InitialState,
                  start_dungeon(InitialState, DungeonSnapshot.dungeon_id,
                                DungeonSnapshot.name, DungeonSnapshot.dungeon_level, 1)}
    /\ record_active = FALSE
    /\ ingest = Ready
    /\ monitor = Sleeping
    /\ _dungeon_monitor_running = TRUE
    /\ main = Running
    /\ dungeon_monitor \in {DungeonMonitor(on_timeout) : on_timeout \in BOOLEAN}
    /\ threads = <<>>
    /\ now = 1
    /\ emitted = NoEvent

NextDungeonMonitor ==
    \/ Tick
    \/ DungeonMonitorStart
    \/ DungeonMonitorStop
    \/ DungeonMonitorStopJoined
    \/ \E i \in 1..Len(dungeon_monitor._monitor_threads) : DungeonMonitorRound(i)

DungeonMonitorSpec == InitDungeonMonitor /\ [][NextDungeonMonitor]_vars

---------------------------------------------------------------------------
(* A begin thread that outlives its session *)

\* the program between two sessions: either no thread is left, or the begin
\* thread of the encounter that ended has not made its first request yet
\* while the finish thread of that encounter has ended and was dropped by
\* _cleanup_completed_threads
InitLateBegin ==
    /\ config \in Configs
    /\ files = RecordingDirectory
    /\ on_event = TRUE
    /\ on_recording_saved = TRUE
    /\ state = InitialState
    /\ record_active = FALSE
    /\ ingest = Ready
    /\ monitor = Sleeping
    /\ _dungeon_monitor_running = TRUE
    /\ main = Running
    /\ dungeon_monitor = DungeonMonitor(FALSE)
    /\ threads \in {<<>>, <<Thread("encounter_start", BossSnapshot, 0, <<>>)>>}
    /\ now = 1
    /\ emitted = NoEvent

LateBeginSpec == InitLateBegin /\ [][Next]_vars

---------------------------------------------------------------------------
(* The claims *)

Finished(th) == th.pc \in {"done", "raised"}
Sent(th, name) == \E k \in 1..Len(th.requests) : th.requests[k] = name
\* the state with the refresh of lastActivityAt left out
SameButActivity(st1, st2) ==
    [st1 EXCEPT !.last_activity_time = None] = [st2 EXCEPT !.last_activity_time = None]

\* the session a thread works for is gated out by the configuration
GatedOut(th) ==
    IF th.target \in {"encounter_start", "encounter_end"}
    THEN th.info.difficulty_id \notin get_enabled_difficulties(config)
    ELSE ~config.RECORD_MPLUS

\* C1: an encounter and a dungeon are never active at the same time.
C1_OneModeAtATime == ~(state.encounter_active /\ state.dungeon_active)

\* C2: recording is true only while an encounter or a dungeon is active,
\* also when a begin thread finishes after the end-transition reset the state.
C2_RecordingOnlyWhileActive ==
    state.recording => (state.encounter_active \/ state.dungeon_active)

\* C2 witness: the state is idle again, and the begin thread of the session
\* that ended had its start command carried out after the finish thread of
\* that session found no recording to stop: it finished after the reset.
C2_Witness ==
    /\ ~state.encounter_active /\ ~state.dungeon_active
    /\ \E i, j \in 1..Len(threads) :
          /\ i < j
          /\ IsBegin(threads[i]) /\ threads[i].pc = "done"
          /\ Sent(threads[i], "StartRecord")
          /\ ~IsBegin(threads[j]) /\ threads[j].pc = "done"
          /\ threads[j].requests = <<"GetRecordStatus">>
    /\ record_active

\* C3: a CHALLENGE_MODE_START processed in Encounter mode and an
\* ENCOUNTER_START processed in Dungeon mode change nothing in the state
\* (but the refresh of lastActivityAt) and launch no thread.
C3_OtherTypeStartIgnored ==
    [][\A event \in LogLines :
          ( /\ ProcessLine(event)
            /\ \/ is_dungeon_start(event)
                  /\ state.encounter_active /\ ~state.dungeon_active
               \/ is_encounter_start(event)
                  /\ state.dungeon_active /\ ~state.encounter_active )
          => (SameButActivity(state', state) /\ threads' = threads)]_vars

\* C5: the end-transition of the monitor (timeout) and a dungeon
\* end-transition of the ingestion path never overlap.
C5_EndTransitionsDoNotOverlap ==
    ~(monitor.pc = "grace" /\ ingest.pc = "grace" /\ ingest.target = "dungeon_end")

\* C6: the ingestion path never waits for a background thread: the rest of
\* an end-transition can run whenever its grace delay is over, and a line can
\* be processed whenever the ingestion thread is between two lines (and the
\* model's bound on the number of threads leaves room), whatever the threads do.
C6_IngestNeverWaits ==
    /\ ingest.pc \in {"ready", "grace", "reset", "raised"}
    /\ ingest.pc = "grace" => ENABLED IngestGraceElapsed
    /\ ingest.pc = "reset" => ENABLED IngestResetResumed
    /\ (ingest.pc = "ready" /\ Len(threads) < MaxThreads)
          => \A event \in LogLines : ENABLED ProcessLine(event)

\* C6 witness: the ingestion thread is in the grace delay of an end-transition
\* while a begin thread waits for OBS to carry out its command.
C6_Witness ==
    /\ ingest.pc = "grace"
    /\ \E i \in 1..Len(threads) : IsBegin(threads[i]) /\ threads[i].pc = "obs_command"

\* C7: when OBS carries out the start command of a begin thread without
\* error, the begin pipeline reports success and recording becomes true.
C7_StartSucceededMarksRecording ==
    [][\A i \in 1..Len(threads) :
          (ObsCommand(i) /\ IsBegin(threads[i]))
          => (threads'[i].result = Some(TRUE) /\ state'.recording)]_vars

\* C8: when the start of the recording fails (a request raises, or the
\* pipeline reports failure), the state is left as it is, with recording
\* false; an end event for the active session is accepted, and the rest of
\* its end-transition leaves the state idle with every field cleared.
C8_FailedStartKeepsSession ==
    [][ /\ \A i \in 1..Len(threads) :
             ( /\ IsBegin(threads[i])
               /\ ~Finished(threads[i])
               /\ \/ threads'[i].pc = "raised"
                  \/ threads'[i].result = Some(FALSE) )
             => (state' = state /\ ~state'.recording)
        /\ \A event \in LogLines :
             ( /\ \/ is_encounter_end(event) /\ state.encounter_active
                  \/ is_dungeon_end(event) /\ state.dungeon_active
               /\ ProcessLine(event) )
             => ingest'.pc = "grace"
        /\ (IngestGraceElapsed \/ MonitorGraceElapsed) => state' = InitialState
      ]_vars

\* C8 witness: the start request of the encounter's begin thread raised, the
\* encounter is still active and unrecorded, and its end event is being
\* processed.
C8_Witness ==
    /\ state.encounter_active /\ ~state.recording
    /\ ingest.pc = "grace" /\ ingest.target = "encounter_end"
    /\ \E i \in 1..Len(threads) :
          /\ threads[i].target = "encounter_start" /\ threads[i].pc = "raised"
          /\ Some(threads[i].info.boss_id) = state.boss_id

\* C9: a start event of a gated-out session (difficulty not enabled, Mythic+
\* switched off) still stores the session in the state, and the threads of
\* such a session make no websocket request and reach no step after the gate.
C9_GatedOutNeverRecords ==
    [][ /\ \A i \in 1..Len(threads') :
             GatedOut(threads'[i])
             => (threads'[i].requests = <<>> /\ threads'[i].pc \in {"start", "done"})
        /\ \A event \in LogLines :
             (state = InitialState /\ ProcessLine(event))
             => /\ ( /\ get_boss_info(event) # None
                     /\ ~is_difficulty_enabled(config,
                                               Val(get_boss_info(event)).difficulty_id) )
                   => /\ state'.encounter_active
                      /\ state'.boss_id = Some(Val(get_boss_info(event)).boss_id)
                      /\ state'.difficulty_id
                            = Some(Val(get_boss_info(event)).difficulty_id)
                /\ (get_dungeon_info(event) # None /\ ~config.RECORD_MPLUS)
                   => /\ state'.dungeon_active
                      /\ state'.dungeon_id = Some(Val(get_dungeon_info(event)).dungeon_id)
      ]_vars

\* C9 witness: the begin thread and the finish thread of a gated-out session
\* have both ended.
C9_Witness ==
    \E i, j \in 1..Len(threads) :
       /\ i < j
       /\ IsBegin(threads[i]) /\ ~IsBegin(threads[j])
       /\ GatedOut(threads[i]) /\ GatedOut(threads[j])
       /\ threads[i].pc = "done" /\ threads[j].pc = "done"

\* C10: every finish thread that has ended, however it ended, has called
\* on_recording_saved exactly once.
C10_FinishAlwaysNotifies ==
    \A i \in 1..Len(threads) :
       (~IsBegin(threads[i]) /\ Finished(threads[i])) => threads[i].saved = 1

\* C11: no exception leaves process_line, whatever the line and the state.
C11_ProcessLineNeverRaises == ingest.pc # "raised"

\* C12: a monitor round that finds the dungeon idle for more than the
\* threshold starts a dungeon end-transition tagged "timeout" with the
\* snapshot of the dungeon, and the rest of that transition leaves the state
\* idle and starts one finish thread holding that snapshot.
C12_IdleTimeoutEndsDungeon ==
    [][ /\ ( /\ state.dungeon_active
              /\ state.last_activity_time # None
              /\ now - Val(state.last_activity_time) > DUNGEON_TIMEOUT_SECONDS
              /\ MonitorTick )
           => /\ monitor'.pc = "grace"
              /\ monitor'.target = "dungeon_end"
              /\ monitor'.reason = "timeout"
              /\ Some(monitor'.info.dungeon_id) = state.dungeon_id
              /\ Some(monitor'.info.name) = state.dungeon_name
              /\ Some(monitor'.info.dungeon_level) = state.dungeon_level
              /\ threads' = threads
        /\ (monitor.pc = "grace" /\ MonitorGraceElapsed)
           => /\ state' = InitialState
              /\ Len(threads') = Len(threads) + 1
              /\ SubSeq(threads', 1, Len(threads)) = threads
              /\ threads'[Len(threads')].target = "dungeon_end"
              /\ threads'[Len(threads')].reason = "timeout"
              /\ threads'[Len(threads')].info = monitor.info
              /\ threads'[Len(threads')].pc = "start"
      ]_vars

\* C12 witness: the monitor has ended a dungeon by timeout while no line was
\* read: the state is idle and the finish thread of the timeout is the only
\* thread after the begin thread of the dungeon.
C12_Witness ==
    /\ state = InitialState
    /\ monitor = Sleeping
    /\ Len(threads) = 2
    /\ threads[1].target = "dungeon_start"
    /\ threads[2].target = "dungeon_end" /\ threads[2].reason = "timeout"
    /\ threads[2].info.dungeon_id = threads[1].info.dungeon_id

\* C13: a finish pipeline whose duration is below the minimum, once it has
\* returned after OBS stopped the recording, has renamed no file; with
\* delete_short_recordings it has deleted the latest recording, without it it
\* has touched no file and reported success.
C13_ShortRecordingPolicy ==
    \A i \in 1..Len(threads) :
       ( /\ ~IsBegin(threads[i]) /\ threads[i].pc = "done"
         /\ ~GatedOut(threads[i])
         /\ Sent(threads[i], "StopRecord")
         /\ threads[i].duration < config.MIN_RECORDING_DURATION )
       => /\ \A k \in 1..Len(threads[i].file_ops) :
                threads[i].file_ops[k].op # "rename"
          /\ IF config.DELETE_SHORT_RECORDINGS
             THEN /\ \E k \in 1..Len(threads[i].file_ops) :
                        threads[i].file_ops[k].op = "delete"
                  /\ \A f \in files : f.name # ObsOutput
             ELSE /\ threads[i].file_ops = <<>>
                  /\ threads[i].result = Some(TRUE)

\* C14: a finish pipeline whose duration is below the minimum sends no
\* stop-record command: the duration is checked before anything else.
C14_ShortRecordingSkipsStop ==
    \A i \in 1..Len(threads) :
       ( /\ ~IsBegin(threads[i])
         /\ ~GatedOut(threads[i])
         /\ threads[i].duration < config.MIN_RECORDING_DURATION )
       => ~Sent(threads[i], "StopRecord")

\* C15: a finish pipeline with a duration of at least the minimum, once OBS
\* has carried out its stop-record command, goes on to the settling delay
\* (and from there to discovery, stability check and rename).
C15_StopThenSettlingDelay ==
    [][ \A i \in 1..Len(threads) :
           ( /\ threads[i].pc = "obs_command"
             /\ ~IsBegin(threads[i])
             /\ threads[i].duration >= config.MIN_RECORDING_DURATION
             /\ ObsCommand(i) )
           => threads'[i].pc = "rename_delay"
      ]_vars

\* C16: when the second size sample of the stability check differs from the
\* first, or the file is gone, the attempt ends there: the directory is left
\* as it is, the thread has renamed and deleted nothing, and the result is
\* failure.
C16_UnstableFileAborts ==
    [][ \A i \in 1..Len(threads) :
           ( /\ threads[i].pc = "stability_sleep"
             /\ threads'[i].pc # "stability_sleep"
             /\ ~\E f \in files : /\ f.name = Val(threads[i].path)
                                  /\ f.size = Val(threads[i].initial_size) )
           => /\ files' = files
              /\ threads'[i].file_ops = <<>>
              /\ threads'[i].pc = "done"
              /\ threads'[i].result = Some(FALSE)
      ]_vars

\* C16 witness: the pipeline has returned failure on a file that is still
\* there under its name, with a size other than the first sample.
C16_Witness ==
    \E i \in 1..Len(threads) :
       /\ threads[i].pc = "done"
       /\ threads[i].result = Some(FALSE)
       /\ threads[i].path # None
       /\ threads[i].file_ops = <<>>
       /\ \E f \in files : /\ f.name = Val(threads[i].path)
                            /\ f.size # Val(threads[i].initial_size)

\* the names the recording of a finish thread is to take (base, attempts 1..3)
TargetNames(th) == IF th.target = "encounter_end" THEN BossNames ELSE DungeonNames
Taken(dir, name) == \E g \in dir : g.name = name

\* C17: the name a stable recording is renamed to is the base name when it
\* is free, and the attempt-(k+1) name when the base name and the attempts
\* 1..k are taken, attempt k+1 is free and k+1 is at most max_rename_attempts;
\* in these cases no file had that name.
C17_CollisionLoopResult ==
    [][ \A i \in 1..Len(threads) :
           ( /\ threads[i].pc = "stability_sleep"
             /\ threads[i].path = Some(ObsOutput)
             /\ threads'[i].pc = "done"
             /\ threads'[i].file_ops # <<>> )
           => LET names == TargetNames(threads[i])
                  target == threads'[i].file_ops[1].target
              IN  /\ threads'[i].file_ops[1].op = "rename"
                  /\ ~Taken(files, names[1]) => target = names[1]
                  /\ \A k \in 1..3 :
                        ( /\ \A j \in 1..k : Taken(files, names[j])
                          /\ ~Taken(files, names[k + 1])
                          /\ k <= config.MAX_RENAME_ATTEMPTS )
                        => target = names[k + 1]
                  /\ ( \/ ~Taken(files, names[1])
                       \/ \E k \in 1..3 :
                             /\ \A j \in 1..k : Taken(files, names[j])
                             /\ ~Taken(files, names[k + 1])
                             /\ k <= config.MAX_RENAME_ATTEMPTS )
                     => ~Taken(files, target)
      ]_vars

\* C17 witness: the base name and attempt 1 being taken by older files, the
\* recording has been renamed to the attempt-2 name.
C17_Witness ==
    \E i \in 1..Len(threads) :
       /\ threads[i].pc = "done"
       /\ threads[i].file_ops
             = <<FileOp("rename", ObsOutput, TargetNames(threads[i])[3])>>
       /\ File(TargetNames(threads[i])[1], 1, 0) \in files
       /\ File(TargetNames(threads[i])[2], 1, 0) \in files
       /\ File(TargetNames(threads[i])[3], 1, 1) \in files
       /\ ~Taken(files, ObsOutput)

\* C18: when the base name and every attempt name up to max_rename_attempts
\* are taken, the rename of a stable recording is given up: the recording
\* keeps its name and every file of the directory stays as it is.
C18_ExhaustionKeepsFiles ==
    [][ \A i \in 1..Len(threads) :
           ( /\ threads[i].pc = "stability_sleep"
             /\ threads[i].path = Some(ObsOutput)
             /\ threads'[i].pc = "done"
             /\ \E f \in files : /\ f.name = ObsOutput
                                  /\ f.size = Val(threads[i].initial_size)
             /\ \A j \in 1..(config.MAX_RENAME_ATTEMPTS + 1) :
                   Taken(files, TargetNames(threads[i])[j]) )
           => /\ files' = files
              /\ threads'[i].file_ops = <<>>
      ]_vars

\* C19: when a request to OBS fails (OBS unreachable, command rejected), the
\* pipeline returns False to the thread function, which ends normally, and
\* the state is as it was.
C19_ObsFailureReturnsFalse ==
    [][ \A i \in 1..Len(threads) :
           ( /\ threads[i].pc \in {"start", "obs_command"}
             /\ ObsRaises(i) )
           => /\ threads'[i].pc = "done"
              /\ threads'[i].result = Some(FALSE)
              /\ state' = state
      ]_vars

\* C20: a start asked for while OBS is recording, and a stop asked for while
\* it is not, send no start or stop command, leave OBS and the state as they
\* are, and the pipeline takes them for a success.
C20_NoOpReportedAsSuccess ==
    [][ \A i \in 1..Len(threads) :
           ( /\ threads[i].pc = "start"
             /\ ~GatedOut(threads[i])
             /\ record_active = IsBegin(threads[i])
             /\ ThreadStart(i) )
           => /\ ~Sent(threads'[i], "StartRecord")
              /\ ~Sent(threads'[i], "StopRecord")
              /\ record_active' = record_active
              /\ threads'[i].result # Some(FALSE)
      ]_vars

\* C21: an exception in one check of the idle monitor does not end the
\* monitor: whenever a check has raised, the monitor is later at its next
\* round, where the idle condition is evaluated again.
C21_MonitorSurvivesException ==
    (monitor.pc \notin {"sleep", "grace"}) ~> (monitor = Sleeping)

\* C21 witness: a check of the monitor raised and the loop caught it, the
\* handler of the ingestion thread having reset the state meanwhile.
C21_Witness == monitor.pc = "caught" /\ state = InitialState /\ ingest = Ready

\* C22: every line processed while a dungeon is active leaves
\* last_activity_time at the current time, whatever the line is.
C22_EveryEventRefreshesActivity ==
    [][ \A event \in LogLines :
           (state.dungeon_active /\ ProcessLine(event))
           => state'.last_activity_time = Some(now)
      ]_vars

\* the zone named by a ZONE_CHANGE is not the dungeon: the line has at least
\* 3 fields and fields[2] does not contain the dungeon name, letter case aside
LeftTheDungeon(event) ==
    /\ Len(event.fields) >= 3
    /\ ~IsSubstring(Lower(Val(state.dungeon_name)), Lower(event.fields[3]))

\* C23: a ZONE_CHANGE processed in an active dungeon whose zone is not the
\* dungeon starts the end of the dungeon with reason zone_change; any other
\* ZONE_CHANGE changes nothing but the activity time and starts no thread.
C23_ZoneChangeHeuristic ==
    [][ \A event \in LogLines :
           (event.event_type = ZONE_CHANGE /\ ProcessLine(event))
           => IF state.dungeon_active /\ LeftTheDungeon(event)
              THEN /\ ingest'.pc = "grace"
                   /\ ingest'.target = "dungeon_end"
                   /\ ingest'.reason = "zone_change"
                   /\ emitted'.type = "DUNGEON_END"
                   /\ emitted'.reason = "zone_change"
              ELSE /\ ingest' = ingest
                   /\ threads' = threads
                   /\ SameButActivity(state, state')
                   /\ emitted' = NoEvent
      ]_vars

\* C23 witness: the end of the dungeon has been started by a ZONE_CHANGE.
C23_Witness ==
    /\ state.dungeon_active
    /\ ingest.pc = "grace"
    /\ ingest.reason = "zone_change"
    /\ emitted.type = "DUNGEON_END"

\* C24: a finish thread keeps the snapshot it was launched with whatever
\* happens to the state, and no step of a finish thread changes the state.
C24_FinishNeverWritesState ==
    [][ \A i \in 1..Len(threads) :
           ~IsBegin(threads[i])
           => /\ Len(threads') >= i
              /\ threads'[i].target = threads[i].target
              /\ threads'[i].info = threads[i].info
              /\ threads'[i].duration = threads[i].duration
              /\ threads'[i] # threads[i] => state' = state
      ]_vars

\* C24 witness: a finish thread has gone through its OBS requests and ended,
\* still holding the boss of its snapshot, while the state has been cleared.
C24_Witness ==
    \E i \in 1..Len(threads) :
       /\ threads[i].target = "encounter_end"
       /\ threads[i].pc = "done"
       /\ Sent(threads[i], "StopRecord")
       /\ threads[i].info.boss_id = 26
       /\ threads[i].info.name = <<"R", "a">>
       /\ state = InitialState

\* C25: whenever neither an encounter nor a dungeon is active, recording is
\* false and every entity field and the start time are cleared.
C25_IdleStateIsCleared ==
    (~state.encounter_active /\ ~state.dungeon_active)
    => /\ ~state.recording
       /\ state.boss_id = None /\ state.boss_name = None
       /\ state.difficulty_id = None /\ state.instance_id = None
       /\ state.dungeon_id = None /\ state.dungeon_name = None
       /\ state.dungeon_level = None
       /\ state.encounter_start_time = None

\* C26: an end-transition takes its snapshot before the grace delay.  A step
\* that brings a handler to its grace delay holds the identity stored in the
\* state at that step and the duration "time of the step minus startedAt",
\* and the finish thread started after the delay is given that identity and
\* that duration as they are, whatever time has passed since.
StoredIdentity(target) ==
    IF target = "encounter_end"
    THEN BossInfo(Val(state.boss_id), Val(state.boss_name), Val(state.difficulty_id),
                  Val(state.instance_id), TS)
    ELSE DungeonInfo(Val(state.dungeon_id), Val(state.dungeon_name),
                     Val(state.dungeon_level), TS)

SnapshotTaken(pos) ==
    /\ [pos.info EXCEPT !.timestamp = TS] = StoredIdentity(pos.target)
    /\ pos.duration = now - Val(state.encounter_start_time)

SnapshotHanded(pos) ==
    /\ Len(threads') = Len(threads) + 1
    /\ threads'[Len(threads')].target = pos.target
    /\ threads'[Len(threads')].info = pos.info
    /\ threads'[Len(threads')].duration = pos.duration

C26_SnapshotBeforeGrace ==
    [][ /\ (ingest.pc = "ready" /\ ingest'.pc = "grace") => SnapshotTaken(ingest')
        /\ (monitor.pc = "sleep" /\ monitor'.pc = "grace") => SnapshotTaken(monitor')
        /\ (ingest.pc = "grace" /\ ingest' # ingest) => SnapshotHanded(ingest)
        /\ (monitor.pc = "grace" /\ monitor' # monitor) => SnapshotHanded(monitor)
      ]_vars

\* C26, amended: as C26, with the identity handed over being the stored one
\* in which an empty name is replaced by "Unknown" ("Unknown Dungeon") and a
\* missing number by 0.
HandedIdentity(target) ==
    IF target = "encounter_end"
    THEN BossInfo(NumOr(state.boss_id, 0), StrOr(state.boss_name, Unknown),
                  NumOr(state.difficulty_id, 0), NumOr(state.instance_id, 0), TS)
    ELSE DungeonInfo(NumOr(state.dungeon_id, 0),
                     StrOr(state.dungeon_name, UnknownDungeon),
                     NumOr(state.dungeon_level, 0), TS)

SnapshotTakenWithDefaults(pos) ==
    /\ [pos.info EXCEPT !.timestamp = TS] = HandedIdentity(pos.target)
    /\ pos.duration = now - Val(state.encounter_start_time)

C26_SnapshotWithDefaults ==
    [][ /\ (ingest.pc = "ready" /\ ingest'.pc = "grace")
              => SnapshotTakenWithDefaults(ingest')
        /\ (monitor.pc = "sleep" /\ monitor'.pc = "grace")
              => SnapshotTakenWithDefaults(monitor')
        /\ (ingest.pc = "grace" /\ ingest' # ingest) => SnapshotHanded(ingest)
        /\ (monitor.pc = "grace" /\ monitor' # monitor) => SnapshotHanded(monitor)
      ]_vars

\* C26 witness: the end of the nameless boss is in its grace delay, the
\* snapshot names it "Unknown", and more time has passed since the start than
\* the duration of the snapshot.
C26_Witness ==
    /\ ingest.pc = "grace" /\ ingest.target = "encounter_end"
    /\ state.boss_name = Some(<<>>)
    /\ ingest.info.name = Unknown /\ ingest.info.boss_id = 28
    /\ now > Val(state.encounter_start_time) + ingest.duration

\* the written lines with the events the parser makes of them
ParsedLines ==
    { <<w, _parse_line(Text(w), nul_raises)>> : w \in WrittenLines, nul_raises \in BOOLEAN }

IsNumber(s) == s # <<>> /\ \A i \in 1..Len(s) : IsDigit(s[i])

WellFormedEncounterStart(w) ==
    /\ Upper(w.fields[1]) = ENCOUNTER_START
    /\ Len(w.fields) >= 6
    /\ IsNumber(w.fields[2]) /\ IsNumber(w.fields[4]) /\ IsNumber(w.fields[6])

\* the well-formed start lines
EncounterStartLines == {p \in ParsedLines : WellFormedEncounterStart(p[1])}

\* parsing and extraction give the record of fields 1, 2, 3 and 5
ExtractionMatches ==
    \A p \in EncounterStartLines :
        get_boss_info(p[2])
          = Some(BossInfo(DigitsVal(p[1].fields[2]), p[1].fields[3],
                          DigitsVal(p[1].fields[4]), DigitsVal(p[1].fields[6]),
                          p[1].timestamp))

Idle == ~state.encounter_active /\ ~state.dungeon_active

\* what every step of ProcessLine leaves alone
LineStep == now' = now /\ monitor' = monitor /\ files' = files

EncounterStored(w, name) ==
    /\ state'.encounter_active /\ ~state'.dungeon_active
    /\ state'.boss_id = Some(DigitsVal(w.fields[2]))
    /\ state'.boss_name = Some(name)
    /\ state'.difficulty_id = Some(DigitsVal(w.fields[4]))
    /\ state'.instance_id = Some(DigitsVal(w.fields[6]))

\* C27: for every well-formed ENCOUNTER_START line with at least 6 fields and
\* numeric fields 1, 3 and 5, parsing and extraction give the record with
\* id = fields[1], name = fields[2], difficultyId = fields[3] and instanceId =
\* fields[5], and processing the line in Idle leaves the state in Encounter
\* mode with exactly these values.
C27_EncounterStartStoresFields ==
    [][ /\ ExtractionMatches
        /\ (ingest.pc = "ready" /\ Idle /\ LineStep)
              => \A p \in EncounterStartLines :
                    ProcessLine(p[2]) => EncounterStored(p[1], p[1].fields[3]) ]_vars

\* the name shown for the boss of a written line: the override of its id in
\* the configuration, if there is one
DisplayName(w) ==
    LET overridden == {o \in config.BOSS_NAME_OVERRIDES : o[1] = DigitsVal(w.fields[2])}
    IN  IF overridden = {} THEN w.fields[3] ELSE (CHOOSE o \in overridden : TRUE)[2]

\* C27, amended: as C27, with the name stored in the state being the
\* configured display name of the boss id when there is one.
C27_EncounterStartStoresDisplayName ==
    [][ /\ ExtractionMatches
        /\ (ingest.pc = "ready" /\ Idle /\ LineStep)
              => \A p \in EncounterStartLines :
                    ProcessLine(p[2]) => EncounterStored(p[1], DisplayName(p[1])) ]_vars

\* C27 witness: the start line of boss 26, written with the name "Ra", has
\* just been processed in Idle under a configuration that names the boss "Rx".
C27_Witness ==
    /\ emitted.type = "ENCOUNTER_START"
    /\ state.encounter_active /\ ~state.dungeon_active
    /\ state.boss_id = Some(26) /\ state.boss_name = Some(<<"R", "x">>)
    /\ state.difficulty_id = Some(15) /\ state.instance_id = Some(9)
    /\ <<26, <<"R", "x">>>> \in config.BOSS_NAME_OVERRIDES

WellFormedDungeonStart(w) ==
    /\ Upper(w.fields[1]) = CHALLENGE_MODE_START
    /\ Len(w.fields) >= 5
    /\ IsNumber(w.fields[3]) /\ IsNumber(w.fields[5])

DungeonStartLines == {p \in ParsedLines : WellFormedDungeonStart(p[1])}

DungeonStored(w) ==
    /\ state'.dungeon_active /\ ~state'.encounter_active
    /\ state'.dungeon_name = Some(w.fields[2])
    /\ state'.dungeon_id = Some(DigitsVal(w.fields[3]))
    /\ state'.dungeon_level = Some(DigitsVal(w.fields[5]))
    /\ state'.encounter_start_time = Some(now)
    /\ state'.last_activity_time = Some(now)
    /\ Len(threads') = Len(threads) + 1
    /\ SubSeq(threads', 1, Len(threads)) = threads
    /\ threads'[Len(threads')].target = "dungeon_start"

NothingLaunched == threads' = threads /\ ingest' = ingest /\ emitted' = NoEvent

\* C28: a CHALLENGE_MODE_START with at least 5 fields and numeric fields 2
\* and 4, processed in Idle, leaves the state in Dungeon mode with
\* name = fields[1], id = fields[2], level = fields[4], startedAt and
\* lastActivityAt at the time of the step, and one more thread, a begin
\* thread of the dungeon; processed in Dungeon mode it changes nothing.
C28_DungeonStartStoresFields ==
    [][ (ingest.pc = "ready" /\ LineStep)
          => \A p \in DungeonStartLines :
                ProcessLine(p[2])
                => /\ Idle => DungeonStored(p[1])
                   /\ state.dungeon_active => (state' = state /\ NothingLaunched) ]_vars

\* C28, amended: as C28, but a CHALLENGE_MODE_START processed in Dungeon mode
\* sets lastActivityAt to the time of the step and changes nothing else.
C28_SecondDungeonStartOnlyRefreshes ==
    [][ (ingest.pc = "ready" /\ LineStep)
          => \A p \in DungeonStartLines :
                ProcessLine(p[2])
                => /\ Idle => DungeonStored(p[1])
                   /\ state.dungeon_active
                        => /\ SameButActivity(state, state')
                           /\ state'.last_activity_time = Some(now)
                           /\ NothingLaunched ]_vars

\* C28 witness: the dungeon of the line "Ta",41,39,14 began at time 1 with
\* one begin thread, and a line was processed in it at time 2.
C28_Witness ==
    /\ state.dungeon_active /\ ~state.encounter_active
    /\ state.dungeon_name = Some(<<"T", "a">>) /\ state.dungeon_id = Some(41)
    /\ state.dungeon_level = Some(14)
    /\ state.encounter_start_time = Some(1) /\ state.last_activity_time = Some(2)
    /\ Len(threads) = 1 /\ threads[1].target = "dungeon_start"
    /\ ingest = Ready /\ emitted = NoEvent

\* a written start line on which the extraction fails
FailsExtraction(w) ==
    \/ /\ Upper(w.fields[1]) = ENCOUNTER_START
       /\ \/ Len(w.fields) < 6
          \/ ~(IsNumber(w.fields[2]) /\ IsNumber(w.fields[4]) /\ IsNumber(w.fields[6]))
    \/ /\ Upper(w.fields[1]) = CHALLENGE_MODE_START
       /\ \/ Len(w.fields) < 5
          \/ ~(IsNumber(w.fields[3]) /\ IsNumber(w.fields[5]))

FailingStartLines ==
    {p \in ParsedLines \cup {<<w, _parse_line(Text(w), TRUE)>> : w \in MalformedStarts} :
        FailsExtraction(p[1])}

\* C29: a start event whose extraction fails is dropped: the step that
\* processes it leaves the state unchanged, starts no thread, emits no
\* notification and raises nothing.
C29_FailedExtractionDropsEvent ==
    [][ (ingest.pc = "ready" /\ LineStep)
          => \A p \in FailingStartLines :
                ProcessLine(p[2]) => (state' = state /\ NothingLaunched) ]_vars

\* C29, amended: as C29, but in Dungeon mode the step sets lastActivityAt to
\* its time, and leaves the rest of the state unchanged.
C29_FailedExtractionOnlyRefreshes ==
    [][ (ingest.pc = "ready" /\ LineStep)
          => \A p \in FailingStartLines :
                ProcessLine(p[2])
                => /\ NothingLaunched
                   /\ IF state.dungeon_active
                      THEN /\ SameButActivity(state, state')
                           /\ state'.last_activity_time = Some(now)
                      ELSE state' = state ]_vars

\* C29 witness: a dungeon began at time 1, its begin thread has not run yet,
\* and a line processed in it at time 2 moved lastActivityAt and launched
\* nothing.
C29_Witness ==
    /\ state.dungeon_active /\ ~state.encounter_active /\ ~state.recording
    /\ state.dungeon_id = Some(41)
    /\ state.encounter_start_time = Some(1) /\ state.last_activity_time = Some(2)
    /\ now = 2 /\ ingest = Ready /\ monitor = Sleeping /\ emitted = NoEvent
    /\ Len(threads) = 1 /\ threads[1].target = "dungeon_start"
    /\ threads[1].pc = "start"

\* a line that is no time stamp and fields: it is empty or blank, or has
\* neither two blanks in a row nor two blanks at all, or the reader of the
\* field list raises on it
FailsParsing(raw_line, nul_raises) ==
    LET line == Strip(raw_line)
        blanks == {i \in 1..Len(line) : line[i] = " "}
    IN  \/ line = <<>>
        \/ Cardinality(blanks) < 2 /\ ~\E i \in blanks : i + 1 \in blanks
        \/ nul_raises /\ \E i \in 1..Len(line) : line[i] = NUL

\* the raw lines with the events the parser makes of them
ParsedRawLines ==
    { <<raw_line, nul_raises, _parse_line(raw_line, nul_raises)>> :
        raw_line \in RawLines, nul_raises \in BOOLEAN }

\* those of them that fail parsing
FailedLines == {p \in ParsedRawLines : FailsParsing(p[1], p[2])}

EventNames ==
    {ENCOUNTER_START, ENCOUNTER_END, CHALLENGE_MODE_START, CHALLENGE_MODE_END,
     ZONE_CHANGE}

\* the kind of an event: the name its handler is chosen by, or Other
Kind(event) ==
    IF is_dungeon_start(event) THEN CHALLENGE_MODE_START
    ELSE IF is_dungeon_end(event) THEN CHALLENGE_MODE_END
    ELSE IF is_zone_change(event) THEN ZONE_CHANGE
    ELSE IF is_encounter_start(event) THEN ENCOUNTER_START
    ELSE IF is_encounter_end(event) THEN ENCOUNTER_END
    ELSE <<"O", "t", "h", "e", "r">>

KindOfName(name) == IF name \in EventNames THEN name ELSE <<"O", "t", "h", "e", "r">>

\* a line that fails parsing gives an event without fields, of kind Other
FailedLinesAreEmpty ==
    \A p \in FailedLines :
        p[3].fields = <<>> /\ Kind(p[3]) = KindOfName(<<>>) /\ ~is_valid(p[3])

\* the kind of every other line is that of its first field in capitals: for
\* a written line the first field as it was written
KindIsFirstField ==
    /\ \A p \in ParsedRawLines \ FailedLines :
          p[3].fields # <<>> /\ Kind(p[3]) = KindOfName(Upper(p[3].fields[1]))
    /\ \A p \in ParsedLines :
          /\ p[2].fields = p[1].fields
          /\ Kind(p[2]) = KindOfName(Upper(p[1].fields[1]))

\* C30: the parser never fails.  A line without the separator of time stamp
\* and data, an empty line and a line with an unreadable field list give an
\* event with empty fields and of kind Other, and processing it changes
\* nothing; for every other line the kind of the event is that of fields[0]
\* in capitals.
C30_ParserNeverFails ==
    [][ /\ FailedLinesAreEmpty
        /\ KindIsFirstField
        /\ (ingest.pc = "ready" /\ LineStep)
              => \A p \in FailedLines :
                    ProcessLine(p[3]) => (state' = state /\ NothingLaunched) ]_vars

\* C30 witness: a dungeon began at time 1 and at time 2 its lastActivityAt is
\* still 1, the state lines that fail parsing leave it in; of the lines of the
\* log, the one with the NUL character gives an event with a time stamp and
\* no fields, and the start line written in small letters one of kind
\* ENCOUNTER_START.
C30_Witness ==
    /\ state.dungeon_active /\ state.last_activity_time = Some(1) /\ now = 2
    /\ ingest = Ready /\ emitted = NoEvent
    /\ \E p \in FailedLines :
          /\ p[3].timestamp = TS /\ p[3].fields = <<>>
          /\ ENABLED ProcessLine(p[3])
    /\ \E p \in ParsedLines :
          p[1].fields[1] = Lower(ENCOUNTER_START) /\ Kind(p[2]) = ENCOUNTER_START

IsAlnum(c) == IsDigit(c) \/ \E i \in 1..26 : c = LowerLetters[i] \/ c = UpperLetters[i]

\* the runs of alphanumeric characters of s, in their order
RECURSIVE AlnumRuns(_, _)
AlnumRuns(s, cur) ==
    IF s = <<>> THEN (IF cur = <<>> THEN <<>> ELSE <<cur>>)
    ELSE IF IsAlnum(Head(s)) THEN AlnumRuns(Tail(s), Append(cur, Head(s)))
    ELSE (IF cur = <<>> THEN <<>> ELSE <<cur>>) \o AlnumRuns(Tail(s), <<>>)

\* the runs appear in s from place start on, one after the other
RECURSIVE AppearInOrder(_, _, _)
AppearInOrder(runs, s, start) ==
    IF runs = <<>> THEN TRUE
    ELSE LET at == Find(s, Head(runs), start)
         IN  at # 0 /\ AppearInOrder(Tail(runs), s, at + Len(Head(runs)))

\* the part of a file name between "<date>_<time>_" and "_<suffix><extension>"
SubjectOf(th, file_name) ==
    SubSeq(file_name, 21,
           Len(file_name) - (IF th.target = "encounter_end" THEN 11 ELSE 9))

Forbidden == {"<", ">", ":", "\"", "/", "\\", "|", "?", "*", "'", ",", " "}

\* C31: the sanitized name a recording is renamed with has none of the
\* characters < > : " / \ | ? *, no apostrophe, no comma and no space, and
\* every run of alphanumeric characters of the raw name appears in it
\* unchanged and in the same order.
C31_SanitizedName ==
    \A i \in 1..Len(threads) :
       \A k \in 1..Len(threads[i].file_ops) :
          threads[i].file_ops[k].op = "rename"
          => LET sanitized == SubjectOf(threads[i], threads[i].file_ops[k].target)
             IN  /\ \A j \in 1..Len(sanitized) : sanitized[j] \notin Forbidden
                 /\ AppearInOrder(AlnumRuns(threads[i].info.name, <<>>), sanitized, 1)

\* C31 witness: the recording of the boss a'7 was renamed with the name a7.
C31_Witness ==
    \E i \in 1..Len(threads) :
       /\ threads[i].target = "encounter_end"
       /\ threads[i].info.name = <<"a", "'", "7">>
       /\ Len(threads[i].file_ops) = 1
       /\ threads[i].file_ops[1].op = "rename"
       /\ SubjectOf(threads[i], threads[i].file_ops[1].target) = <<"a", "7">>
       /\ \E f \in files : f.name = threads[i].file_ops[1].target

\* the monitor begins the idle check of a round in this step
IdleCheckBegun ==
    /\ monitor.pc \in {"sleep", "tested"}
    /\ state.dungeon_active
    /\ monitor' \notin {monitor, Tested, Stopped}

\* the monitor begins a timeout transition in this step
TimeoutTransitionBegun ==
    /\ monitor.pc \in {"sleep", "tested"}
    /\ monitor'.pc = "grace"

\* C32: once shutdown has cleared _dungeon_monitor_running, the monitor
\* begins no further idle check and no new timeout transition.
C32_MonitorStopsOnSignal ==
    [][ ~_dungeon_monitor_running => ~IdleCheckBegun /\ ~TimeoutTransitionBegun ]_vars

\* C32, second part: a shutdown that was called returns (ShutdownLiveSpec).
C32_ShutdownTerminates == (main # Running) ~> (main = ShutdownComplete)

\* no session is active and nothing of the program is under way
Quiescent ==
    /\ ~state.encounter_active /\ ~state.dungeon_active
    /\ ingest = Ready
    /\ monitor.pc = "sleep"
    /\ \A i \in 1..Len(threads) : Finished(threads[i])

\* C33: once the session has ended and every begin/finish thread has
\* finished, OBS is not left recording: a StartRecord that a begin thread
\* sent was followed by a StopRecord.
C33_RecorderNotLeftRecording == Quiescent => ~record_active

\* the last step read an ENCOUNTER_START line that began an encounter, and
\* it did so while the monitor was in the grace delay of a timeout transition
EncounterBegunInGrace ==
    /\ monitor.pc = "grace"
    /\ emitted.type = "ENCOUNTER_START"
    /\ state.encounter_active
    /\ Len(threads) > 0
    /\ threads[Len(threads)].target = "encounter_start"
    /\ threads[Len(threads)].pc = "start"

\* C34: the reset that ends the monitor's timeout transition clears only the
\* dungeon the transition ended: an encounter begun by a line read during
\* the grace delay is still the active encounter after the reset.
C34_ResetKeepsLaterSession ==
    [][ (EncounterBegunInGrace /\ MonitorGraceElapsed)
        => /\ state'.encounter_active
           /\ state'.boss_id = state.boss_id
           /\ state'.encounter_start_time = state.encounter_start_time ]_vars

\* the encounter fields of the state are left as they are
EncounterKept ==
    /\ state'.encounter_active
    /\ state'.boss_id = state.boss_id
    /\ state'.boss_name = state.boss_name
    /\ state'.difficulty_id = state.difficulty_id
    /\ state'.instance_id = state.instance_id
    /\ state'.encounter_start_time = state.encounter_start_time

\* C35: an ENCOUNTER_START line read while an encounter is active and the
\* state is not flagged as recording leaves the stored encounter and its
\* start time as they are and starts no second begin thread.
C35_RepeatedStartIsIgnored ==
    [][ (ingest.pc = "ready" /\ state.encounter_active /\ ~state.recording /\ LineStep)
           => \A p \in EncounterStartLines :
                 ProcessLine(p[2]) => EncounterKept /\ threads' = threads ]_vars

\* the begin thread of the session in the state: the last one started
OwnBegin(i) ==
    /\ IsBegin(threads[i])
    /\ \A j \in (i + 1)..Len(threads) : ~IsBegin(threads[j])

\* C36: the state is flagged as recording only when a session is active and
\* the begin thread started for that session sent StartRecord and reported
\* success; the begin thread of an earlier session never flags a later one.
C36_RecordingMeansOwnStart ==
    state.recording
    => /\ state.encounter_active \/ state.dungeon_active
       /\ \E i \in 1..Len(threads) :
             /\ OwnBegin(i)
             /\ Sent(threads[i], "StartRecord")
             /\ threads[i].result = Some(TRUE)

\* C36 witness: the begin thread of boss 26, whose encounter has ended, has
\* sent StartRecord and finished while the encounter of boss 27, gated out by
\* its difficulty, is the active session; the state is not flagged.
C36_Witness ==
    /\ Len(threads) = 2
    /\ threads[1].target = "encounter_start" /\ threads[1].info.boss_id = 26
    /\ threads[1].pc = "done" /\ Sent(threads[1], "StartRecord")
    /\ threads[2].target = "encounter_start" /\ threads[2].info.boss_id = 27
    /\ GatedOut(threads[2])
    /\ state.encounter_active /\ state.boss_id = Some(27)
    /\ state.encounter_start_time = Some(2)
    /\ ~state.recording
    /\ record_active

\* C37: whatever the sequence of DungeonMonitor.start and stop calls, at most
\* one thread runs the monitor loop.
C37_AtMostOneLoop == Cardinality(AliveLoops(dungeon_monitor)) <= 1

DungeonGoneQuiet ==
    state.dungeon_active /\ is_dungeon_idle(state, DUNGEON_TIMEOUT_SECONDS, now)

\* the dungeon has ended and a finish thread was started for a dungeon
DungeonFinished ==
    /\ ~state.dungeon_active
    /\ \E i \in 1..Len(threads) : threads[i].target = "dungeon_end"

\* C39: when no line arrives any more while a dungeon is active, the state
\* becomes idle and a finish thread is started for the dungeon, the monitor
\* being scheduled.
C39_QuietDungeonEnds == DungeonGoneQuiet ~> DungeonFinished

\* C39 witness: the monitor has ended a quiet dungeon: its end-transition,
\* tagged timeout, has started the finish thread and the state is idle.
C39_Witness ==
    /\ state = InitialState
    /\ monitor = Sleeping
    /\ ingest = Ready
    /\ now = 2
    /\ Len(threads) = 2
    /\ threads[1].target = "dungeon_start" /\ threads[1].pc = "start"
    /\ threads[2].target = "dungeon_end" /\ threads[2].reason = "timeout"
    /\ threads[2].pc = "start" /\ threads[2].duration = 1

EndLines == {p \in LogLines : is_encounter_end(p) \/ is_dungeon_end(p)}

Unmatched(event) ==
    IF is_encounter_end(event) THEN ~state.encounter_active
    ELSE ~state.dungeon_active

\* C40 as stated: an ENCOUNTER_END processed while no encounter is active,
\* and a CHALLENGE_MODE_END or a monitor round processed while no dungeon is
\* active, leave the state unchanged, start no thread, begin no stop of the
\* recording and emit no event.
C40_UnmatchedEndChangesNothing ==
    [][ /\ (ingest.pc = "ready" /\ LineStep)
              => \A p \in EndLines :
                    (Unmatched(p) /\ ProcessLine(p))
                    => state' = state /\ NothingLaunched
        /\ (monitor.pc = "sleep" /\ ~state.dungeon_active /\ MonitorTick)
              => /\ state' = state
                 /\ threads' = threads
                 /\ ingest' = ingest
                 /\ emitted' = NoEvent ]_vars

\* C40: an ENCOUNTER_END processed while no encounter is active, and a
\* CHALLENGE_MODE_END or a monitor round processed while no dungeon is
\* active, start no thread, begin no stop of the recording and emit no
\* event; the state is unchanged, except that an ENCOUNTER_END processed
\* while a dungeon is active sets last_activity_time to the time of the step.
C40_UnmatchedEndOnlyRefreshes ==
    [][ /\ (ingest.pc = "ready" /\ LineStep)
              => \A p \in EndLines :
                    (Unmatched(p) /\ ProcessLine(p))
                    => /\ NothingLaunched
                       /\ SameButActivity(state, state')
                       /\ state'.last_activity_time
                            = IF state.dungeon_active THEN Some(now)
                              ELSE state.last_activity_time
        /\ (monitor.pc = "sleep" /\ ~state.dungeon_active /\ MonitorTick)
              => /\ state' = state
                 /\ threads' = threads
                 /\ ingest' = ingest
                 /\ emitted' = NoEvent ]_vars

\* after an ENCOUNTER_END read at time 2 in a dungeon begun at time 1 with
\* no encounter: only last_activity_time moved, the begin thread is alone
C40_Witness ==
    /\ state.dungeon_active /\ ~state.encounter_active
    /\ state.encounter_start_time = Some(1)
    /\ state.last_activity_time = Some(2)
    /\ state.boss_name = None
    /\ Len(threads) = 1 /\ threads[1].target = "dungeon_start"
    /\ ingest = Ready /\ monitor = Sleeping
    /\ emitted = NoEvent /\ now = 2

====
